---------------------------- MODULE Spec2Model ----------------------------
(***************************************************************************)
(* Reversible-circuit synthesis for x^2 mod N (GregDMeyer/quantum-         *)
(* advantage): the ancilla manager, the synthesis routines of              *)
(* circuits/digital_circuits.py, and the Toffoli simulator of tof_sim.py.  *)
(*                                                                         *)
(* A synthesis routine is a Python generator.  Flattening it (what         *)
(* cirq.Circuit does) runs its body in program order, so a routine is      *)
(* modelled as an operator that threads a synthesis context                *)
(*     s = [ancillas : the AncillaManager,                                 *)
(*          trace    : every event so far, in the order it happened        *)
(*                     (ancilla allocations, retirements, gates emitted),  *)
(*          err      : the exception raised, "" when none]                 *)
(* through its statements.  Routines that are plain functions              *)
(* (montgomery_reduce, x2_mod_N) run their body at the call and hand back  *)
(* generators that run only when they are flattened; they are modelled in  *)
(* two parts, the call and the flattening.                                 *)
(***************************************************************************)
EXTENDS Integers, Sequences, FiniteSets, TLC

VARIABLES
    pc,        \* position of the harness: "start", "built", "loaded", "done"
    call,      \* the synthesis call under test: routine, register sizes, constants
    ancillas,  \* the AncillaManager handed to the routine
    trace,     \* synthesis events in the order they occurred
    circ,      \* the flattened circuit: the gates of trace, in order
    error,     \* the exception raised by synthesis, "" when none
    input,     \* the values loaded into the registers before the replay
    state,     \* the simulator's state dict: qubit name -> bit
    rtn        \* the value returned by the call (R, or the pair of extended_gcd)

vars == <<pc, call, ancillas, trace, circ, error, input, state, rtn>>

-----------------------------------------------------------------------------
(* Bounds of the model *)

\* longest register of the addition checks
MaxLen == 5

\* registers up to this length are loaded with every value
ExhaustLen == 2

\* longest operand register of the multiplication checks
MaxMul == 5

\* longest register squared
MaxSq == 10

\* largest modulus of the Montgomery and x2_mod_N checks
MaxN == 33

\* largest number of times_three steps
MaxThrees == 1

\* largest argument of extended_gcd
MaxAB == 100

\* the most ancillas one AncillaManager issues, the most calls made on it, and
\* the longest register asked of it, in the runs of the allocator alone
MaxIssued == 3

MaxOps == 4

MaxRegLen == 2

\* the longest program handed to the simulator alone
MaxGates == 3

\* the largest modulus and the longest x and y registers of the calls that try
\* the entry checks of x2_mod_N
MaxCheckN == 3

MaxX == 6

MaxY == 12

\* the longest operand of the calls that try the Karatsuba recursion
MaxKLen == 8

\* the largest problem size n handed to the gate-counting tool
MaxCountN == 4

-----------------------------------------------------------------------------
(* Integers as Python has them *)

Min(a, b) == IF a < b THEN a ELSE b

Abs(x) == IF x < 0 THEN -x ELSE x

RECURSIVE bit_length_nat(_)
bit_length_nat(x) == IF x = 0 THEN 0 ELSE 1 + bit_length_nat(x \div 2)

\* int.bit_length(): the bits of the absolute value
bit_length(x) == bit_length_nat(Abs(x))

\* x & 1, also of a negative x (two's complement)
LowBit(x) == x % 2

\* x >> k, rounding towards minus infinity (all integers here are below 2^31)
Shr(x, k) == IF k > 30 THEN (IF x < 0 THEN -1 ELSE 0) ELSE x \div (2 ^ k)

\* x & ((1 << k) - 1)
LowBits(x, k) == x % (2 ^ k)

\* (x >> i) & 1, the test x & (1 << i)
Bit(x, i) == Shr(x, i) % 2

-----------------------------------------------------------------------------
(* Qubits and registers.  A qubit is its name: a prefix and an index.  A    *)
(* register is a sequence of qubits, least significant first; a slice      *)
(* shares the qubits of its parent.                                        *)

\* cirq.NamedQubit.range(n, prefix=p)
NamedQubitRange(n, p) == [i \in 1..n |-> <<p, i - 1>>]

\* the value of a variable that was never assigned a qubit
None == <<"None", 0>>

\* Python's S[lo:hi], S[lo:] and S[:hi] for 0 <= lo, hi
Slice(S, lo, hi) == SubSeq(S, lo + 1, Min(hi, Len(S)))

From(S, lo) == SubSeq(S, lo + 1, Len(S))

Upto(S, hi) == SubSeq(S, 1, Min(hi, Len(S)))

\* Python's S[i] for 0 <= i
At(S, i) == S[i + 1]

-----------------------------------------------------------------------------
(* circuits/ancilla.py *)

Ancilla(idx) == <<"anc", idx>>

\* AncillaManager.__init__
AncillaManager == [qubits |-> <<>>, n_active |-> 0, max_ancillas |-> 0]

\* a faulty setter, which makes the maximum follow the live count down
set_n_active_current(self, val) ==
    [self EXCEPT !.n_active = val, !.max_ancillas = val]

\* the n_active setter
set_n_active(self, val) ==
    [self EXCEPT !.n_active = val,
                 !.max_ancillas = IF val > @ THEN val ELSE @]

\* a faulty variant, which numbers the ancilla by the live count and so
\* gives the identity of a retired ancilla to a new one
new_recycling(self) ==
    set_n_active(
        [self EXCEPT !.qubits =
            Append(@, [name |-> Ancilla(self.n_active), isgarbage |-> FALSE])],
        self.n_active + 1)

\* AncillaManager.new: the qubit issued is Ancilla(Len(self.qubits))
new(self) ==
    set_n_active(
        [self EXCEPT !.qubits =
            Append(@, [name |-> Ancilla(Len(self.qubits)), isgarbage |-> FALSE])],
        self.n_active + 1)

\* AncillaManager.new_register: issues Ancilla(len), ..., Ancilla(len + n - 1)
new_register(self, n) ==
    set_n_active(
        [self EXCEPT !.qubits =
            @ \o [i \in 1..n |->
                    [name |-> Ancilla(Len(self.qubits) + i - 1), isgarbage |-> FALSE]]],
        self.n_active + n)

\* AncillaManager.discard of a list of Ancilla objects
discard(self, qubits) ==
    LET names == {qubits[i] : i \in 1..Len(qubits)}
    IN set_n_active(
        [self EXCEPT !.qubits =
            [i \in 1..Len(@) |->
                IF @[i].name \in names THEN [@[i] EXCEPT !.isgarbage = TRUE]
                                       ELSE @[i]]],
        self.n_active - Len(qubits))

\* isinstance(q, Ancilla)
IsAncilla(q) == q[1] = "anc"

\* qubit._discard() for each qubit of a list of Ancilla objects
mark_discarded(self, qubits) ==
    [self EXCEPT !.qubits =
        [i \in 1..Len(@) |->
            IF \E h \in 1..Len(qubits) : qubits[h] = @[i].name
            THEN [@[i] EXCEPT !.isgarbage = TRUE]
            ELSE @[i]]]

\* AncillaManager.discard of any argument: one qubit (single) or a list of
\* qubits.  The result is the manager after the call and the exception that
\* left it, if any: a qubit that is no Ancilla cannot be iterated, and in a
\* list it has no _discard, which ends the loop before the live count changes.
discard_any(self, single, qubits) ==
    IF single
    THEN IF IsAncilla(qubits[1])
         THEN [self |-> discard(self, qubits), err |-> ""]
         ELSE [self |-> self, err |-> "TypeError: 'NamedQubit' object is not iterable"]
    ELSE IF \A h \in 1..Len(qubits) : IsAncilla(qubits[h])
    THEN [self |-> discard(self, qubits), err |-> ""]
    ELSE [self |-> mark_discarded(self,
                      SubSeq(qubits, 1,
                             (CHOOSE h \in 1..Len(qubits) :
                                 /\ ~IsAncilla(qubits[h])
                                 /\ \A g \in 1..(h - 1) : IsAncilla(qubits[g])) - 1)),
          err |-> "AttributeError: 'NamedQubit' object has no attribute '_discard'"]

\* AncillaManager.all
all(self) == [i \in 1..Len(self.qubits) |-> self.qubits[i].name]

\* AncillaManager.__len__
len(self) == Len(self.qubits)

\* AncillaManager.all_discarded
all_discarded(self) == self.n_active = 0

\* AncillaManager.max_ancilla_usage
max_ancilla_usage(self) == self.max_ancillas

-----------------------------------------------------------------------------
(* tof_sim.py *)

\* int_to_state: name -> bit of x, for a register that x fits
int_to_state(x, reg) ==
    [q \in {reg[i] : i \in 1..Len(reg)} |->
        Bit(x, (CHOOSE i \in 1..Len(reg) : reg[i] = q) - 1)]

\* dict.update
update(d, e) ==
    [q \in (DOMAIN d) \cup (DOMAIN e) |-> IF q \in DOMAIN e THEN e[q] ELSE d[q]]

\* AncillaManager.init_state
init_state(self) == int_to_state(0, all(self))

RECURSIVE state_to_int(_, _)
state_to_int(st, reg) ==
    IF reg = <<>> THEN 0
    ELSE st[reg[1]] + 2 * state_to_int(st, Tail(reg))

\* the flip decided on every qubit of the gate, the target included
apply_gate_all_qubits(st, op) ==
    LET n == Len(op.qubits)
    IN IF \A i \in 1..n : st[op.qubits[i]] = 1
       THEN [st EXCEPT ![op.qubits[n]] = 1 - @]
       ELSE st

\* one X, CNOT or TOFFOLI: the last qubit flips iff all the others are 1
apply_gate(st, op) ==
    LET n == Len(op.qubits)
    IN IF \A i \in 1..(n - 1) : st[op.qubits[i]] = 1
       THEN [st EXCEPT ![op.qubits[n]] = 1 - @]
       ELSE st

\* the loop of ToffoliSimulator.simulate over circ[lo..hi], in order
RECURSIVE simulate_range(_, _, _, _)
simulate_range(c, lo, hi, st) ==
    IF lo > hi THEN st
    ELSE IF lo = hi THEN apply_gate(st, c[lo])
    ELSE LET mid == (lo + hi) \div 2
             first == simulate_range(c, lo, mid, st)
         IN \* the first half has run to its end before the second starts
            IF DOMAIN first = {} THEN first
            ELSE simulate_range(c, mid + 1, hi, first)

\* ToffoliSimulator.simulate on a circuit of allowed gates
simulate(c, st) == simulate_range(c, 1, Len(c), st)

\* ToffoliSimulator.allowed_gates
allowed_gates == {"TOFFOLI", "CNOT", "X"}

\* ToffoliSimulator.phase_error_gates
phase_error_gates == {"Y", "Z"}

\* the sign read after Y has flipped the bit
phase_gate_after_flip(sim, op) ==
    LET n == Len(op.qubits)
        flipped == IF op.kind = "Y"
                   THEN [sim.state EXCEPT ![op.qubits[n]] = 1 - @]
                   ELSE sim.state
    IN [sim EXCEPT !.phase = IF flipped[op.qubits[1]] = 1 THEN -1 * @ ELSE @,
                   !.state = flipped]

\* one Y or Z: the sign changes iff the first qubit is 1; Y then flips the
\* last qubit
phase_gate(sim, op) ==
    LET n == Len(op.qubits)
    IN [sim EXCEPT !.phase = IF sim.state[op.qubits[1]] = 1 THEN -1 * @ ELSE @,
                   !.state = IF op.kind = "Y"
                             THEN [@ EXCEPT ![op.qubits[n]] = 1 - @]
                             ELSE @]

\* the dispatch with a gate of neither set passed over
simulate_op_lenient(sim, op) ==
    IF op.kind \in allowed_gates
    THEN [sim EXCEPT !.state = apply_gate(@, op)]
    ELSE IF op.kind \in phase_error_gates
    THEN phase_gate(sim, op)
    ELSE sim

\* the body of the loop of ToffoliSimulator.simulate for one operation
simulate_op(sim, op) ==
    IF op.kind \in allowed_gates
    THEN [sim EXCEPT !.state = apply_gate(@, op)]
    ELSE IF op.kind \in phase_error_gates
    THEN phase_gate(sim, op)
    ELSE [sim EXCEPT !.err = "ValueError: unsupported gate type"]

\* the loop of ToffoliSimulator.simulate from operation j on; hist holds the
\* state dictionary, the sign and the exception after each operation so far,
\* and the loop ends where an exception is raised
RECURSIVE simulate_loop(_, _, _)
simulate_loop(c, j, hist) ==
    IF j > Len(c) \/ hist[Len(hist)].err # "" THEN hist
    ELSE simulate_loop(c, j + 1,
                       Append(hist, simulate_op(hist[Len(hist)], c[j])))

\* ToffoliSimulator.simulate on any circuit: the sign starts from 1
simulate_call(c, st) ==
    simulate_loop(c, 1, <<[state |-> st, phase |-> 1, err |-> ""]>>)

-----------------------------------------------------------------------------
(* Gates and the synthesis context *)

X(q) == [kind |-> "X", qubits |-> <<q>>]

CNOT(c, q) == [kind |-> "CNOT", qubits |-> <<c, q>>]

TOFFOLI(c1, c2, q) == [kind |-> "TOFFOLI", qubits |-> <<c1, c2, q>>]

Y(q) == [kind |-> "Y", qubits |-> <<q>>]

Z(q) == [kind |-> "Z", qubits |-> <<q>>]

\* a gate of neither set of the simulator
H(q) == [kind |-> "H", qubits |-> <<q>>]

IsGate(e) == e.kind \in {"X", "CNOT", "TOFFOLI"}

\* the context a top-level call starts from
Context(self) == [ancillas |-> self, trace |-> <<>>, err |-> ""]

\* raise E: the first exception ends the synthesis
Raise(s, e) == IF s.err # "" THEN s ELSE [s EXCEPT !.err = e]

\* yield of gates: cirq refuses an operand that is not a qubit
Yield(s, gates) ==
    IF s.err # "" THEN s
    ELSE IF \E i \in 1..Len(gates) : \E j \in 1..Len(gates[i].qubits) :
                gates[i].qubits[j] = None
    THEN Raise(s, "ValueError: not a qubit")
    ELSE [s EXCEPT !.trace = @ \o gates]

\* q = ancillas.new(): New(s) is the context after, NewQ(s) the qubit issued
NewQ(s) == Ancilla(len(s.ancillas))

New(s) ==
    IF s.err # "" THEN s
    ELSE [s EXCEPT !.ancillas = new(@),
                   !.trace = Append(@, [kind |-> "new", qubits |-> <<NewQ(s)>>])]

\* r = ancillas.new_register(n)
NewReg(s, n) == [i \in 1..n |-> Ancilla(len(s.ancillas) + i - 1)]

NewRegister(s, n) ==
    IF s.err # "" THEN s
    ELSE [s EXCEPT !.ancillas = new_register(@, n),
                   !.trace = Append(@, [kind |-> "new", qubits |-> NewReg(s, n)])]

\* ancillas.discard(q) of one ancilla (or of None: iterating it is a TypeError)
Discard(s, q) ==
    IF s.err # "" THEN s
    ELSE IF q = None THEN Raise(s, "TypeError: 'NoneType' object is not iterable")
    ELSE [s EXCEPT !.ancillas = discard(@, <<q>>),
                   !.trace = Append(@, [kind |-> "discard", qubits |-> <<q>>])]

\* ancillas.discard(reg) of a register of ancillas
DiscardRegister(s, reg) ==
    IF s.err # "" THEN s
    ELSE [s EXCEPT !.ancillas = discard(@, reg),
                   !.trace = Append(@, [kind |-> "discard", qubits |-> reg])]

\* the end of an invocation of a routine that was entered in the context s and
\* leaves the context out: the trace records the live count on entry and on
\* exit, and the ancillas issued since the entry (numbers len(s.ancillas)
\* onward) that are still live
Return(routine, s, out) ==
    IF out.err # "" THEN out
    ELSE [out EXCEPT !.trace =
            Append(@, [kind |-> "return", qubits |-> <<>>, routine |-> routine,
                       live_in |-> s.ancillas.n_active,
                       live_out |-> out.ancillas.n_active,
                       issued_in |-> len(s.ancillas),
                       issued_out |-> len(out.ancillas),
                       still_live |->
                           {i \in len(s.ancillas)..(len(out.ancillas) - 1) :
                               ~out.ancillas.qubits[i + 1].isgarbage}])]

\* the start of an invocation of a Karatsuba routine: the trace records the
\* lengths of its operands and of its output register, and its mode
Enter(routine, sizes, allow_overflow, s) ==
    IF s.err # "" THEN s
    ELSE [s EXCEPT !.trace =
            Append(@, [kind |-> "call", qubits |-> <<>>, routine |-> routine,
                       sizes |-> sizes, allow_overflow |-> allow_overflow])]

\* the gates of a trace: what cirq.Circuit(..., strategy=NEW) holds
Circuit(tr) == SelectSeq(tr, IsGate)

-----------------------------------------------------------------------------
(* circuits/digital_circuits.py: the primitive adders *)

\* a faulty half adder, whose TOFFOLI names the cell A twice
half_adder_on_one_cell(A, B, Cout) == <<TOFFOLI(A, A, Cout), CNOT(A, B)>>

half_adder(A, B, Cout) == <<TOFFOLI(A, B, Cout), CNOT(A, B)>>

\* a faulty full adder, which drops the carry of B and Cin: the carry cells
\* of add_int tell it from full_adder
full_adder_without_carry_in(A, B, Cin, Cout) ==
    <<TOFFOLI(A, B, Cout), CNOT(A, B), CNOT(Cin, B)>>

full_adder(A, B, Cin, Cout) ==
    <<TOFFOLI(A, B, Cout), CNOT(A, B), TOFFOLI(B, Cin, Cout), CNOT(Cin, B)>>

\* copy_register: the check, then one CNOT per aligned pair
copy_register(A, B, s) ==
    Return("copy_register", s,
        IF s.err # "" THEN s
        ELSE IF Len(A) > Len(B)
        THEN Raise(s, "ValueError: register B must be at least as long as A")
        ELSE Yield(s, [i \in 1..Len(A) |-> CNOT(A[i], B[i])]))

-----------------------------------------------------------------------------
(* add_int.  The state of a carry loop is the record [s, cin]: the context *)
(* and the carry of the last column.                                       *)

\* the loop over enumerate(A); i is 0-based and cout is NewQ(s)
RECURSIVE add_int_columns(_, _, _, _, _)
add_int_columns(A, B, i, cin, s) ==
    IF s.err # "" \/ i >= Len(A) \/ i >= Len(B) THEN [s |-> s, cin |-> cin]
    ELSE add_int_columns(A, B, i + 1, NewQ(s),
             IF cin = None
             THEN Yield(New(s), half_adder(At(A, i), At(B, i), NewQ(s)))
             ELSE Discard(Yield(New(s), full_adder(At(A, i), At(B, i), cin, NewQ(s))),
                          cin))

\* "need to carry to the end of B": the loop over a slice Bs of cells
RECURSIVE carry_to_end(_, _, _)
carry_to_end(Bs, cin, s) ==
    IF s.err # "" \/ Bs = <<>> THEN [s |-> s, cin |-> cin]
    ELSE carry_to_end(Tail(Bs), NewQ(s),
                      Discard(Yield(New(s), half_adder(cin, Bs[1], NewQ(s))), cin))

\* the same loop, entered with the state l of the loop before it
carry_on(Bs, l) == carry_to_end(Bs, l.cin, l.s)

\* ancillas.discard(cin) after a carry loop that ended in the state l
\* a faulty variant, which leaves the last carry ancilla live
discard_carry_forgotten(l) == l.s

discard_carry(l) == Discard(l.s, l.cin)

add_int(A, B, s, allow_overflow) ==
    Return("add_int", s,
        IF s.err # "" THEN s
        ELSE IF ~allow_overflow /\ Len(A) > Len(B)
        THEN Raise(s, "ValueError: register A too long to add to register B")
        ELSE discard_carry(carry_on(From(B, Len(A)), add_int_columns(A, B, 0, None, s))))

-----------------------------------------------------------------------------
(* add_classical_int; control is None or the control qubit *)

\* a faulty variant, which flips whatever the control holds
Xgate_uncontrolled(control, q) == X(q)

Xgate(control, q) == IF control = None THEN X(q) ELSE CNOT(control, q)

\* the loop over A; a is As[1] and cout is NewQ(s)
RECURSIVE add_classical_int_columns(_, _, _, _, _)
add_classical_int_columns(x, As, control, cin, s) ==
    IF s.err # "" \/ As = <<>> THEN [s |-> s, cin |-> cin]
    ELSE add_classical_int_columns(Shr(x, 1), Tail(As), control, NewQ(s),
             Discard(IF LowBit(x) = 0
                     THEN Yield(New(s), half_adder(cin, As[1], NewQ(s)))
                     ELSE Yield(New(s),
                                <<Xgate(control, cin), Xgate(control, As[1])>>
                                \o half_adder(cin, As[1], NewQ(s))
                                \o <<Xgate(control, As[1]), Xgate(control, NewQ(s))>>),
                     cin))

\* a faulty variant, which also rejects a constant that fills A exactly
add_classical_int_strict(x, A, s, control) ==
    IF s.err # "" THEN s
    ELSE IF bit_length(x) >= Len(A)
    THEN Raise(s, "ValueError: x too large to add to A")
    ELSE discard_carry(add_classical_int_columns(x, A, control, NewQ(s), New(s)))

add_classical_int(x, A, s, control) ==
    Return("add_classical_int", s,
        IF s.err # "" THEN s
        ELSE IF bit_length(x) > Len(A)
        THEN Raise(s, "ValueError: x too large to add to A")
        ELSE discard_carry(add_classical_int_columns(x, A, control, NewQ(s), New(s))))

-----------------------------------------------------------------------------
(* times_three *)

\* the loop over A[:-1]; the state is [s, cin, prev]; a is As[1], cout is
\* NewQ(s) and new_prev the ancilla issued after it
RECURSIVE times_three_columns(_, _, _, _)
times_three_columns(As, cin, prev, s) ==
    IF s.err # "" \/ As = <<>> THEN [s |-> s, cin |-> cin, prev |-> prev]
    ELSE times_three_columns(Tail(As), NewQ(s), NewQ(New(s)),
             IF cin # None
             THEN Discard(Discard(
                      Yield(Yield(New(New(s)), <<CNOT(As[1], NewQ(New(s)))>>),
                            full_adder(prev, As[1], cin, NewQ(s))),
                      cin), prev)
             ELSE Yield(New(New(s)), <<CNOT(As[1], NewQ(New(s)))>>))

\* the statements after the loop, which ended in the state l
times_three_end(last, l) ==
    Discard(Discard(Yield(Yield(l.s, <<CNOT(l.cin, last)>>), <<CNOT(l.prev, last)>>),
                    l.cin),
            l.prev)

times_three(A, s) ==
    Return("times_three", s,
        IF s.err # "" THEN s
        ELSE times_three_end(IF A = <<>> THEN None ELSE A[Len(A)],
                             times_three_columns(Upto(A, Len(A) - 1), None, None, s)))

-----------------------------------------------------------------------------
(* lessthan_classical *)

\* the loop over reversed(list(enumerate(A))), from i down to 0; the state is
\* [s, eq]; a is At(A, i) and eq_out is NewQ(s)
RECURSIVE lessthan_classical_bits(_, _, _, _, _, _)
lessthan_classical_bits(A, x, b, i, eq, s) ==
    IF s.err # "" \/ i < 0 THEN [s |-> s, eq |-> eq]
    ELSE lessthan_classical_bits(A, x, b, i - 1, NewQ(s),
             Discard(IF Bit(x, i) = 0
                     THEN Yield(Yield(New(s), <<CNOT(eq, NewQ(s))>>),
                                <<TOFFOLI(eq, At(A, i), NewQ(s))>>)
                     ELSE Yield(Yield(New(s), <<CNOT(eq, NewQ(s))>>),
                                <<X(At(A, i)),
                                  TOFFOLI(eq, At(A, i), b),
                                  TOFFOLI(eq, At(A, i), NewQ(s)),
                                  X(At(A, i))>>),
                     eq))

\* ancillas.discard(eq) after the loop, which ended in the state l
\* a faulty variant, which leaves the last eq ancilla live
discard_eq_forgotten(l) == l.s

discard_eq(l) == Discard(l.s, l.eq)

\* a faulty variant, which emits nothing for a constant wider than A
lessthan_classical_without_wide_case(A, x, b, s) ==
    Return("lessthan_classical", s,
        IF s.err # "" THEN s
        ELSE IF bit_length(x) > Len(A) THEN s
        ELSE discard_eq(lessthan_classical_bits(A, x, b, Len(A) - 1, NewQ(s),
                                                Yield(New(s), <<X(NewQ(s))>>))))

lessthan_classical(A, x, b, s) ==
    Return("lessthan_classical", s,
        IF s.err # "" THEN s
        ELSE IF bit_length(x) > Len(A) THEN Yield(s, <<X(b)>>)
        ELSE discard_eq(lessthan_classical_bits(A, x, b, Len(A) - 1, NewQ(s),
                                                Yield(New(s), <<X(NewQ(s))>>))))

-----------------------------------------------------------------------------
(* check_mult_sizes and get_cutoff *)

\* check_mult_sizes with a register as first operand
check_mult_sizes(A, B, C, s) ==
    IF s.err # "" THEN s
    ELSE IF Len(C) < Len(A) + Len(B)
    THEN Raise(s, "ValueError: register C not large enough to store result")
    ELSE s

\* check_mult_sizes with an integer as first operand
check_mult_sizes_int(a, B, C, s) ==
    IF s.err # "" THEN s
    ELSE IF a < 0
    THEN Raise(s, "ValueError: allow_overflow required for negative integers")
    ELSE IF Len(C) < bit_length(a) + Len(B)
    THEN Raise(s, "ValueError: register C not large enough to store result")
    ELSE s

\* a faulty variant, which lets the cutoff 3 pass
get_cutoff_from_three(cutoff_in, default) ==
    LET r == IF cutoff_in = <<>> THEN default ELSE cutoff_in[1]
    IN [rtn |-> r, err |-> IF r < 3 THEN "ValueError: cutoff must be >= 4" ELSE ""]

\* a cutoff argument is <<>> (None) or <<c>>; the result is the cutoff, or
\* the error for a cutoff below 4
get_cutoff(cutoff_in, default) ==
    LET r == IF cutoff_in = <<>> THEN default ELSE cutoff_in[1]
    IN [rtn |-> r, err |-> IF r < 4 THEN "ValueError: cutoff must be >= 4" ELSE ""]

-----------------------------------------------------------------------------
(* The schoolbook multipliers.  The state of a row is [s, cin] (and b_idx   *)
(* in schoolbook_square).                                                   *)

\* a faulty variant, which drops the last carry of a row in the mode C_zero
finish_carries_without_carry(C, k, l, C_zero) ==
    IF ~C_zero THEN discard_carry(carry_on(From(C, k), l))
    ELSE Discard(l.s, l.cin)

\* "finish performing the carries" and ancillas.discard(cin) of a row that
\* ended in the state l; k is the index of the first cell above the row
finish_carries(C, k, l, C_zero) ==
    IF ~C_zero THEN discard_carry(carry_on(From(C, k), l))
    ELSE Discard(Yield(l.s, <<CNOT(l.cin, At(C, k))>>), l.cin)

\* the same where the CNOT is under "elif len(C) > k"
finish_carries_within(C, k, l, C_zero) ==
    IF ~C_zero \/ Len(C) > k THEN finish_carries(C, k, l, C_zero)
    ELSE discard_carry(l)

\* schoolbook_mult: the loop over enumerate(B) of row i; d is NewQ(s) and
\* cout the ancilla issued after it
RECURSIVE schoolbook_mult_row(_, _, _, _, _, _, _)
schoolbook_mult_row(a, B, C, i, j, cin, s) ==
    IF s.err # "" \/ j >= Len(B) THEN [s |-> s, cin |-> cin]
    ELSE schoolbook_mult_row(a, B, C, i, j + 1, NewQ(New(s)),
             Discard(Discard(
                 Yield(New(Yield(New(s), <<TOFFOLI(a, At(B, j), NewQ(s))>>)),
                       full_adder(NewQ(s), At(C, i + j), cin, NewQ(New(s)))),
                 cin), NewQ(s)))

\* the loop over enumerate(A); cin is NewQ(s)
RECURSIVE schoolbook_mult_rows(_, _, _, _, _, _)
schoolbook_mult_rows(A, B, C, i, s, C_zero) ==
    IF s.err # "" \/ i >= Len(A) THEN s
    ELSE schoolbook_mult_rows(A, B, C, i + 1,
             finish_carries(C, i + Len(B),
                            schoolbook_mult_row(At(A, i), B, C, i, 0, NewQ(s), New(s)),
                            C_zero),
             C_zero)

schoolbook_mult(A, B, C, s, C_zero) ==
    Return("schoolbook_mult", s,
        schoolbook_mult_rows(A, B, C, 0, check_mult_sizes(A, B, C, s), C_zero))

\* schoolbook_classical_mult: the loop over enumerate(B) of row i, left when
\* i + j reaches len(C); cout is NewQ(s)
RECURSIVE schoolbook_classical_mult_row(_, _, _, _, _, _)
schoolbook_classical_mult_row(B, C, i, j, cin, s) ==
    IF s.err # "" \/ j >= Len(B) \/ i + j >= Len(C) THEN [s |-> s, cin |-> cin]
    ELSE schoolbook_classical_mult_row(B, C, i, j + 1, NewQ(s),
             Discard(Yield(New(s), full_adder(At(B, j), At(C, i + j), cin, NewQ(s))),
                     cin))

\* the loop for i in range(n), a being shifted right once per turn
RECURSIVE schoolbook_classical_mult_rows(_, _, _, _, _, _, _)
schoolbook_classical_mult_rows(a, B, C, i, n, s, C_zero) ==
    IF s.err # "" \/ i >= n THEN s
    ELSE schoolbook_classical_mult_rows(Shr(a, 1), B, C, i + 1, n,
             IF LowBit(a) = 1
             THEN finish_carries_within(C, i + Len(B),
                      schoolbook_classical_mult_row(B, C, i, 0, NewQ(s), New(s)),
                      C_zero)
             ELSE s,
             C_zero)

\* a faulty variant, which leaves out the row of the highest bit of a
schoolbook_classical_mult_short(a, B, C, s, allow_overflow, C_zero) ==
    schoolbook_classical_mult_rows(a, B, C, 0,
        IF a > 0 THEN bit_length(a) - 1 ELSE IF a = 0 THEN 0 ELSE Len(C),
        IF ~allow_overflow THEN check_mult_sizes_int(a, B, C, s) ELSE s,
        C_zero)

schoolbook_classical_mult(a, B, C, s, allow_overflow, C_zero) ==
    Return("schoolbook_classical_mult", s,
        schoolbook_classical_mult_rows(a, B, C, 0,
            IF a >= 0 THEN bit_length(a) ELSE Len(C),
            IF ~allow_overflow THEN check_mult_sizes_int(a, B, C, s) ELSE s,
            C_zero))

\* schoolbook_square: one turn of the loop for j in range(i, len(A)) with
\* i = j; cout is NewQ(s) and the second cout the ancilla issued after it
schoolbook_square_diagonal(A, B, i, cin, s) ==
    Discard(Yield(New(Discard(Yield(New(s),
                                    full_adder(At(A, i), At(B, 2 * i), cin, NewQ(s))),
                              cin)),
                  half_adder(NewQ(s), At(B, 2 * i + 1), NewQ(New(s)))),
            NewQ(s))

\* a faulty variant of the turn with i # j, which adds the cross term a_i a_j
\* at weight i + j, once instead of twice
schoolbook_square_cross_once(A, B, i, j, cin, s) ==
    Discard(Discard(
        Yield(New(Yield(New(s), <<TOFFOLI(At(A, i), At(A, j), NewQ(s))>>)),
              full_adder(NewQ(s), At(B, i + j), cin, NewQ(New(s)))),
        cin), NewQ(s))

\* one turn with i # j; a is NewQ(s) and cout the ancilla issued after it
schoolbook_square_cross(A, B, i, j, cin, s) ==
    Discard(Discard(
        Yield(New(Yield(New(s), <<TOFFOLI(At(A, i), At(A, j), NewQ(s))>>)),
              full_adder(NewQ(s), At(B, i + j + 1), cin, NewQ(New(s)))),
        cin), NewQ(s))

\* the loop for j in range(i, len(A)); the state is [s, cin, b_idx]
RECURSIVE schoolbook_square_row(_, _, _, _, _, _, _)
schoolbook_square_row(A, B, i, j, cin, b_idx, s) ==
    IF s.err # "" \/ j >= Len(A) THEN [s |-> s, cin |-> cin, b_idx |-> b_idx]
    ELSE IF i = j
    THEN schoolbook_square_row(A, B, i, j + 1, NewQ(New(s)), i + j + 1,
                               schoolbook_square_diagonal(A, B, i, cin, s))
    ELSE schoolbook_square_row(A, B, i, j + 1, NewQ(New(s)), i + j + 1,
                               schoolbook_square_cross(A, B, i, j, cin, s))

\* b_idx += 1 and the end of a row that ended in the state row
schoolbook_square_carries(B, row, C_zero) ==
    finish_carries_within(B, row.b_idx + 1, row, C_zero)

\* the loop for i in range(len(A)); cin is NewQ(s)
RECURSIVE schoolbook_square_rows(_, _, _, _, _)
schoolbook_square_rows(A, B, i, s, C_zero) ==
    IF s.err # "" \/ i >= Len(A) THEN s
    ELSE schoolbook_square_rows(A, B, i + 1,
             schoolbook_square_carries(B,
                 schoolbook_square_row(A, B, i, i, NewQ(s), 0, New(s)), C_zero),
             C_zero)

schoolbook_square(A, B, s, C_zero) ==
    Return("schoolbook_square", s,
        schoolbook_square_rows(A, B, 0, check_mult_sizes(A, A, B, s), C_zero))

-----------------------------------------------------------------------------
(* karatsuba_mult *)

\* a faulty variant, which leaves the register as it is
flip_register_skipped(reg, s) == s

\* for c in C_mid: yield cirq.X(c)
flip_register(reg, s) == Yield(s, [i \in 1..Len(reg) |-> X(reg[i])])

\* The body is written in three parts, each a local operator over the context
\* at its start, the last part first.
RECURSIVE karatsuba_mult(_, _, _, _, _, _)
karatsuba_mult(A, B, C, s, cutoff, C_zero) ==
    Return("karatsuba_mult", s,
        LET s0 == check_mult_sizes(A, B, C,
                      Enter("karatsuba_mult", <<Len(A), Len(B), Len(C)>>, FALSE, s))
            _cutoff == get_cutoff(cutoff, 15)
        IN IF s0.err # "" THEN s0
           ELSE IF _cutoff.err # "" THEN Raise(s0, _cutoff.err)
           ELSE IF Len(A) <= _cutoff.rtn \/ Len(B) <= _cutoff.rtn
           THEN schoolbook_mult(A, B, C, s0, C_zero)
           ELSE
           LET AB_break == Min(Len(A), Len(B)) \div 2
               A_low == Upto(A, AB_break)
               B_low == Upto(B, AB_break)
               A_high == From(A, AB_break)
               B_high == From(B, AB_break)
               C_mid == NewReg(s0, Len(A_high) + Len(B_high) + 2)
               C_high_size == Len(A_high) + Len(B_high)
               \* from "A_sum = ancillas.new_register(...)" to the end
               sum_product(s7) ==
                   IF s7.err # "" THEN s7 ELSE
                   LET A_sum == NewReg(s7, Len(A_high) + 1)
                       s8 == NewRegister(s7, Len(A_high) + 1)
                       B_sum == NewReg(s8, Len(B_high) + 1)
                       s9 == NewRegister(s8, Len(B_high) + 1)
                       s10 == add_int(A_high, A_sum, copy_register(A_low, A_sum, s9), FALSE)
                       s11 == add_int(B_high, B_sum, copy_register(B_low, B_sum, s10), FALSE)
                       \* from the product of the sums to the end
                       middle_product(s12) ==
                           IF s12.err # "" THEN s12 ELSE
                           LET s13 == karatsuba_mult(A_sum, B_sum, C_mid, s12, cutoff, FALSE)
                               s14 == add_int(C_mid, From(C, AB_break), s13, FALSE)
                           IN DiscardRegister(
                                  DiscardRegister(DiscardRegister(s14, A_sum), B_sum), C_mid)
                   IN middle_product(
                          add_classical_int(1, C_mid, flip_register(C_mid, s11), None))
               \* from "C_high_size = ..." to the discard of C_high
               high_product(s3) ==
                   IF s3.err # "" THEN s3 ELSE
                   LET C_high == IF C_zero
                                 THEN Slice(C, 2 * AB_break, 2 * AB_break + C_high_size)
                                 ELSE NewReg(s3, C_high_size)
                       s4 == IF C_zero THEN s3 ELSE NewRegister(s3, C_high_size)
                       s5 == karatsuba_mult(A_high, B_high, C_high, s4, cutoff, TRUE)
                       s6 == add_int(C_high, C_mid, s5, FALSE)
                   IN sum_product(
                          IF ~C_zero
                          THEN DiscardRegister(
                                   add_int(C_high, From(C, 2 * AB_break), s6, FALSE), C_high)
                          ELSE s6)
               \* from "C_mid = ancillas.new_register(...)" to the low product in C
               s1 == NewRegister(s0, Len(A_high) + Len(B_high) + 2)
               s2 == karatsuba_mult(A_low, B_low, C_mid, s1, cutoff, TRUE)
           IN high_product(
                  IF C_zero
                  THEN copy_register(Upto(C_mid, 2 * AB_break), Upto(C, 2 * AB_break), s2)
                  ELSE add_int(C_mid, C, s2, FALSE)))

-----------------------------------------------------------------------------
(* karatsuba_classical_mult *)

RECURSIVE karatsuba_classical_mult(_, _, _, _, _, _, _)
karatsuba_classical_mult(a, B, C, s, cutoff, allow_overflow, C_zero) ==
    Return("karatsuba_classical_mult", s,
        LET len_a == IF a >= 0 THEN bit_length(a) ELSE Len(C)
            s_in == Enter("karatsuba_classical_mult", <<len_a, Len(B), Len(C)>>,
                          allow_overflow, s)
            s0 == IF ~allow_overflow THEN check_mult_sizes_int(a, B, C, s_in) ELSE s_in
            _cutoff == get_cutoff(cutoff, 24)
        IN IF s0.err # "" THEN s0
           ELSE IF _cutoff.err # "" THEN Raise(s0, _cutoff.err)
           ELSE IF allow_overflow /\ Len(C) > 4
           THEN
           LET B_break == IF len_a > Len(B) THEN Len(C) \div 2
                          ELSE Len(C) - (Len(C) \div 2)
               A_break == IF len_a > Len(B) THEN Len(C) - (Len(C) \div 2)
                          ELSE Len(C) \div 2
               a_low == LowBits(a, A_break)
               B_low == Upto(B, B_break)
               a_high == Shr(a, A_break)
               B_high == From(B, B_break)
               s1 == karatsuba_classical_mult(a_low, B_low, C, s0, cutoff, FALSE, C_zero)
               s2 == karatsuba_classical_mult(a_low, B_high, From(C, B_break), s1,
                                              cutoff, TRUE, FALSE)
           IN karatsuba_classical_mult(a_high, B_low, From(C, A_break), s2,
                                       cutoff, TRUE, FALSE)
           ELSE IF len_a <= _cutoff.rtn \/ Len(B) <= _cutoff.rtn \/ Len(C) <= _cutoff.rtn
           THEN schoolbook_classical_mult(a, B, C, s0, allow_overflow, C_zero)
           ELSE
           LET AB_break == Min(len_a, Len(B)) \div 2
               a_low == LowBits(a, AB_break)
               B_low == Upto(B, AB_break)
               a_high == Shr(a, AB_break)
               B_high == From(B, AB_break)
               C_mid == NewReg(s0, bit_length(a_high) + Len(B_high) + 2)
               C_high_size == bit_length(a_high) + Len(B_high)
               a_sum == a_low + a_high
               \* from "B_sum = ancillas.new_register(...)" to the end
               sum_product(s7) ==
                   IF s7.err # "" THEN s7 ELSE
                   LET B_sum == NewReg(s7, Len(B_high) + 1)
                       s8 == NewRegister(s7, Len(B_high) + 1)
                       s9 == add_int(B_high, B_sum, copy_register(B_low, B_sum, s8), FALSE)
                       \* from the product of the sums to the end
                       middle_product(s10) ==
                           IF s10.err # "" THEN s10 ELSE
                           LET s11 == karatsuba_classical_mult(a_sum, B_sum, C_mid, s10,
                                                               cutoff, FALSE, FALSE)
                               s12 == add_int(C_mid, From(C, AB_break), s11, FALSE)
                           IN DiscardRegister(DiscardRegister(s12, B_sum), C_mid)
                   IN middle_product(
                          add_classical_int(1, C_mid, flip_register(C_mid, s9), None))
               \* from "C_high_size = ..." to the discard of C_high
               high_product(s3) ==
                   IF s3.err # "" THEN s3 ELSE
                   LET C_high == IF C_zero
                                 THEN Slice(C, 2 * AB_break, 2 * AB_break + C_high_size)
                                 ELSE NewReg(s3, C_high_size)
                       s4 == IF C_zero THEN s3 ELSE NewRegister(s3, C_high_size)
                       s5 == karatsuba_classical_mult(a_high, B_high, C_high, s4,
                                                      cutoff, FALSE, TRUE)
                       s6 == add_int(C_high, C_mid, s5, FALSE)
                   IN sum_product(
                          IF ~C_zero
                          THEN DiscardRegister(
                                   add_int(C_high, From(C, 2 * AB_break), s6, FALSE), C_high)
                          ELSE s6)
               \* from "C_mid = ancillas.new_register(...)" to the low product in C
               s1 == NewRegister(s0, bit_length(a_high) + Len(B_high) + 2)
               s2 == karatsuba_classical_mult(a_low, B_low, C_mid, s1, cutoff, FALSE, TRUE)
           IN high_product(
                  IF C_zero
                  THEN copy_register(Upto(C_mid, 2 * AB_break), Upto(C, 2 * AB_break), s2)
                  ELSE add_int(C_mid, C, s2, FALSE)))

-----------------------------------------------------------------------------
(* karatsuba_square *)

RECURSIVE karatsuba_square(_, _, _, _, _)
karatsuba_square(A, C, s, cutoff, C_zero) ==
    Return("karatsuba_square", s,
        LET s0 == check_mult_sizes(A, A, C,
                      Enter("karatsuba_square", <<Len(A), Len(A), Len(C)>>, FALSE, s))
            _cutoff == get_cutoff(cutoff, 15)
        IN IF s0.err # "" THEN s0
           ELSE IF _cutoff.err # "" THEN Raise(s0, _cutoff.err)
           ELSE IF Len(A) <= _cutoff.rtn
           THEN schoolbook_square(A, C, s0, C_zero)
           ELSE
           LET A_break == Len(A) \div 2
               A_low == Upto(A, A_break)
               A_high == From(A, A_break)
               \* from "C_mid = ancillas.new_register(len(A))" to the end
               cross_product(s6) ==
                   IF s6.err # "" THEN s6 ELSE
                   LET C_mid == NewReg(s6, Len(A))
                       s7 == NewRegister(s6, Len(A))
                       s8 == karatsuba_mult(A_low, A_high, C_mid, s7, cutoff, TRUE)
                       s9 == add_int(C_mid, From(C, A_break + 1), s8, FALSE)
                   IN DiscardRegister(s9, C_mid)
               \* the square of A_high; s3 is the context after the square of A_low
               high_square(s3) ==
                   IF s3.err # "" THEN s3 ELSE
                   LET C_high == IF ~C_zero THEN NewReg(s3, 2 * (Len(A) - A_break))
                                 ELSE From(C, 2 * A_break)
                       s4 == IF ~C_zero THEN NewRegister(s3, 2 * (Len(A) - A_break)) ELSE s3
                       s5 == karatsuba_square(A_high, C_high, s4, cutoff, TRUE)
                   IN cross_product(
                          IF ~C_zero
                          THEN DiscardRegister(
                                   add_int(C_high, From(C, 2 * A_break), s5, FALSE), C_high)
                          ELSE s5)
               \* the square of A_low
               C_low == IF C_zero THEN Upto(C, 2 * A_break) ELSE NewReg(s0, 2 * A_break)
               s1 == IF C_zero THEN s0 ELSE NewRegister(s0, 2 * A_break)
               s2 == karatsuba_square(A_low, C_low, s1, cutoff, TRUE)
           IN high_square(
                  IF ~C_zero
                  THEN DiscardRegister(add_int(C_low, C, s2, FALSE), C_low)
                  ELSE s2))

-----------------------------------------------------------------------------
(* extended_gcd *)

\* the while loop; the result is <<old_s, old_t>>
RECURSIVE extended_gcd_loop(_, _, _, _, _, _)
extended_gcd_loop(old_r, r, old_s, s, old_t, t) ==
    IF r = 0 THEN <<old_s, old_t>>
    ELSE LET quotient == old_r \div r
         IN extended_gcd_loop(r, old_r - quotient * r,
                              s, old_s - quotient * s,
                              t, old_t - quotient * t)

\* a faulty variant, which returns the coefficients of the loop as they are
extended_gcd_unnormalised(a, b) ==
    LET l == extended_gcd_loop(a, b, 1, 0, 0, 1)
    IN <<l[1], -l[2]>>

\* the pair returned: <<x, y>>
extended_gcd(a, b) ==
    LET l == extended_gcd_loop(a, b, 1, 0, 0, 1)
        old_s == IF l[1] < 0 THEN l[1] + b ELSE l[1]
        old_t == IF l[2] > 0 THEN l[2] - a ELSE l[2]
    IN <<old_s, -old_t>>

-----------------------------------------------------------------------------
(* montgomery_reduce.  mult is the strategy: [type, cutoff], type           *)
(* "schoolbook" or "karatsuba", cutoff <<>> or <<c>> as bound by the caller *)

classical_mult(mult, a, B, C, s, allow_overflow, C_zero) ==
    IF mult.type = "schoolbook"
    THEN schoolbook_classical_mult(a, B, C, s, allow_overflow, C_zero)
    ELSE karatsuba_classical_mult(a, B, C, s, mult.cutoff, allow_overflow, C_zero)

\* a faulty variant, which allocates m before it looks at the parity of N
montgomery_reduce_allocating_first(T, s, N, mult) ==
    LET r == bit_length(N)
        R == 2 ^ r
        m == NewReg(s, r)
        s1 == DiscardRegister(NewRegister(s, r), m)
        b == NewQ(s1)
        s2 == Discard(New(s1), b)
        none == [R |-> 0, r |-> r, Np |-> 0, m |-> <<>>, b |-> None]
    IN IF s.err # "" THEN [s |-> s] @@ none
       ELSE IF Len(T) < 2 * bit_length(N) + 1
       THEN [s |-> Raise(s, "ValueError: T too small for montgomery reduction")] @@ none
       ELSE IF N % 2 = 0
       THEN [s |-> Raise(NewRegister(s, r), "ValueError: N must be odd")] @@ none
       ELSE [s |-> Return("montgomery_reduce", s, s2),
             R |-> R, r |-> r, Np |-> extended_gcd(R, N)[2], m |-> m, b |-> b]

\* the body of montgomery_reduce, run at the call: the checks, the classical
\* values, and every allocation and retirement of m and b.  The result holds
\* the context after the call, R, and what the generators in ops refer to.
montgomery_reduce(T, s, N, mult) ==
    LET r == bit_length(N)
        R == 2 ^ r
        Np == extended_gcd(R, N)[2]
        m == NewReg(s, r)
        s1 == DiscardRegister(NewRegister(s, r), m)
        b == NewQ(s1)
        s2 == Discard(New(s1), b)
        none == [R |-> 0, r |-> r, Np |-> 0, m |-> <<>>, b |-> None]
    IN IF s.err # "" THEN [s |-> s] @@ none
       ELSE IF Len(T) < 2 * bit_length(N) + 1
       THEN [s |-> Raise(s, "ValueError: T too small for montgomery reduction")] @@ none
       ELSE IF N % 2 = 0
       THEN [s |-> Raise(s, "ValueError: N must be odd")] @@ none
       ELSE [s |-> Return("montgomery_reduce", s, s2),
             R |-> R, r |-> r, Np |-> Np, m |-> m, b |-> b]

\* a faulty variant, which leaves out the flip of b before the subtraction
montgomery_reduce_ops_without_flip(mr, T, s, N, mult) ==
    LET r == mr.r
        s1 == classical_mult(mult, mr.Np, Upto(T, r), mr.m, s, TRUE, TRUE)
        s2 == classical_mult(mult, N, mr.m, T, s1, FALSE, FALSE)
        s3 == lessthan_classical(From(T, r), N, mr.b, s2)
    IN add_classical_int(-N, From(T, r), s3, mr.b)

\* flattening the list ops that montgomery_reduce returned as mr
montgomery_reduce_ops(mr, T, s, N, mult) ==
    LET r == mr.r
        s1 == classical_mult(mult, mr.Np, Upto(T, r), mr.m, s, TRUE, TRUE)
        s2 == classical_mult(mult, N, mr.m, T, s1, FALSE, FALSE)
        s3 == lessthan_classical(From(T, r), N, mr.b, s2)
        s4 == Yield(s3, <<X(mr.b)>>)
    IN add_classical_int(-N, From(T, r), s4, mr.b)

-----------------------------------------------------------------------------
(* x2_mod_N and get_registers *)

\* the pair <<x_reg, y_reg>>
get_registers(n, factor) ==
    LET extra_bits == bit_length(factor)
    IN <<NamedQubitRange(n + extra_bits, "x"),
         NamedQubitRange(2 * (n + 2 * extra_bits) + 1, "y")>>

\* the mult argument x2_mod_N hands to montgomery_reduce
mult_of(mult_type) == [type |-> mult_type, cutoff |-> <<>>]

\* the body of x2_mod_N, run at the call; the result holds the context after
\* the call, R, and the result mr of its call of montgomery_reduce
x2_mod_N(N, x, y, s, mult_type, threes) ==
    LET factor == 3 ^ threes
        xmax == factor * N
        x_len == bit_length(xmax)
        y_len == bit_length(2 * xmax + 1)
        mr == montgomery_reduce(y, s, factor ^ 2 * N, mult_of(mult_type))
    IN IF s.err # "" THEN [s |-> s, R |-> 0, mr |-> mr]
       ELSE IF Len(x) < x_len \/ Len(y) < y_len
       THEN [s |-> Raise(s, "ValueError: registers not large enough"), R |-> 0, mr |-> mr]
       ELSE IF mult_type \in {"karatsuba", "schoolbook"}
       THEN [s |-> mr.s, R |-> mr.R, mr |-> mr]
       ELSE [s |-> Raise(s, "ValueError: unknown mult type"), R |-> 0, mr |-> mr]

\* three_gen: times_three(x, ancillas) for _ in range(threes)
RECURSIVE three_gen(_, _, _)
three_gen(x, s, threes) ==
    IF s.err # "" \/ threes = 0 THEN s
    ELSE three_gen(x, times_three(x, s), threes - 1)

\* a faulty variant, which leaves out the multiplications of x by three
x2_mod_N_ops_without_threes(rv, N, x, y, s, mult_type, threes) ==
    LET factor == 3 ^ threes
        s2 == IF mult_type = "karatsuba"
              THEN karatsuba_square(x, y, s, <<>>, TRUE)
              ELSE schoolbook_square(x, y, s, TRUE)
    IN montgomery_reduce_ops(rv.mr, y, s2, factor ^ 2 * N, mult_of(mult_type))

\* flattening the tuple (three_gen, mult_gen, reduce_gen) that x2_mod_N returned
x2_mod_N_ops(rv, N, x, y, s, mult_type, threes) ==
    LET factor == 3 ^ threes
        s1 == three_gen(x, s, threes)
        s2 == IF mult_type = "karatsuba"
              THEN karatsuba_square(x, y, s1, <<>>, TRUE)
              ELSE schoolbook_square(x, y, s1, TRUE)
    IN montgomery_reduce_ops(rv.mr, y, s2, factor ^ 2 * N, mult_of(mult_type))

-----------------------------------------------------------------------------
(* The harness of tests/test_digital_circuits.py: build the circuit of one *)
(* synthesis call, load the registers and zeroed ancillas, replay, read.   *)

\* the registers of a call, in the order their values are held in input
Registers(c) ==
    CASE c.routine = "add_int" ->
            <<NamedQubitRange(c.n, "a"), NamedQubitRange(c.m, "b")>>
      [] c.routine = "add_classical_int" ->
            <<NamedQubitRange(c.m, "b")>>
      [] c.routine \in {"schoolbook_square", "karatsuba_square"} ->
            <<NamedQubitRange(c.n, "a"), NamedQubitRange(c.k, "b")>>
      [] c.routine \in {"schoolbook_mult", "karatsuba_mult"} ->
            <<NamedQubitRange(c.n, "a"), NamedQubitRange(c.m, "b"),
              NamedQubitRange(c.k, "c")>>
      [] c.routine \in {"schoolbook_classical_mult", "karatsuba_classical_mult"} ->
            <<NamedQubitRange(c.m, "b"), NamedQubitRange(c.k, "c")>>
      [] c.routine = "montgomery_reduce" ->
            <<NamedQubitRange(c.k, "T")>>
      [] c.routine = "add_classical_int_control" ->
            <<NamedQubitRange(c.m, "b"), NamedQubitRange(1, "c")>>
      [] c.routine = "lessthan_classical" ->
            <<NamedQubitRange(c.m, "b"),
              IF c.result = "ancilla" THEN <<Ancilla(0)>>
              ELSE NamedQubitRange(1, "r")>>
      [] c.routine = "x2_mod_N" ->
            IF "n" \in DOMAIN c
            THEN <<NamedQubitRange(c.n, "x"), NamedQubitRange(c.k, "y")>>
            ELSE get_registers(bit_length(c.N), 3 ^ c.threes)

\* the values loaded into a register of k cells: all of them for a short
\* register, the corner and pattern values for a long one
Values(k) ==
    IF k <= ExhaustLen THEN 0..(2 ^ k - 1)
    ELSE {0, 1, 2 ^ (k - 1), 2 ^ k - 1, (2 ^ k) \div 3}

\* the values loaded into an accumulator register of k cells: empty, full,
\* and every other cell set
Accumulators(k) == {0, 2 ^ k - 1, (2 ^ k) \div 3}

\* the values the harness loads into the registers of a call
\* the values loaded into the output register: a call in the mode C_zero is
\* made on an output register that holds 0
Outputs(c, vals) == IF c.C_zero THEN {0} ELSE vals

Inputs(c) ==
    CASE c.routine = "add_int" ->
            {<<a, b>> : a \in 0..(2 ^ c.n - 1), b \in 0..(2 ^ c.m - 1)}
      [] c.routine = "add_classical_int" ->
            {<<b>> : b \in 0..(2 ^ c.m - 1)}
      [] c.routine \in {"schoolbook_square", "karatsuba_square"} ->
            {<<a, b>> : a \in Values(c.n), b \in Outputs(c, Values(c.k))}
      [] c.routine \in {"schoolbook_mult", "karatsuba_mult"} ->
            {<<a, b, v>> : a \in Values(c.n), b \in Values(c.m),
                           v \in Outputs(c, Accumulators(c.k))}
      [] c.routine \in {"schoolbook_classical_mult", "karatsuba_classical_mult"} ->
            {<<b, v>> : b \in Values(c.m), v \in Outputs(c, Accumulators(c.k))}
      [] c.routine = "montgomery_reduce" ->
            {<<T>> : T \in 0..(c.N * 2 ^ bit_length(c.N) - 1)}
      [] c.routine = "add_classical_int_control" ->
            {<<b, v>> : b \in 0..(2 ^ c.m - 1), v \in {0, 1}}
      [] c.routine = "lessthan_classical" ->
            {<<b, v>> : b \in 0..(2 ^ c.m - 1),
                        v \in IF c.result = "ancilla" THEN {0} ELSE {0, 1}}
      [] c.routine = "x2_mod_N" ->
            {<<x, 0>> : x \in 0..(c.N - 1)}

\* state = int_to_state(v1, reg1); state.update(...); state.update(ancillas.init_state())
RECURSIVE load_registers(_, _)
load_registers(regs, vals) ==
    IF regs = <<>> THEN <<>>
    ELSE update(int_to_state(vals[1], regs[1]), load_registers(Tail(regs), Tail(vals)))

initial_state(regs, vals, self) == update(load_registers(regs, vals), init_state(self))

\* circ = cirq.Circuit(routine(...)): the synthesis has run to its end
Built(s) ==
    /\ pc' = "built"
    /\ ancillas' = s.ancillas
    /\ trace' = s.trace
    /\ circ' = Circuit(s.trace)
    /\ error' = s.err
    /\ UNCHANGED <<call, input, state, rtn>>

\* R, circ_gen = routine(...) of a plain function: its body has run
Called(rv) ==
    /\ pc' = "called"
    /\ ancillas' = rv.s.ancillas
    /\ trace' = rv.s.trace
    /\ error' = rv.s.err
    /\ rtn' = [rv EXCEPT !.s = <<>>]
    /\ UNCHANGED <<call, circ, input, state>>

\* the context in which the generators of a call are flattened
Flattening == [ancillas |-> ancillas, trace |-> trace, err |-> ""]

Build_add_int ==
    /\ pc = "start"
    /\ call.routine = "add_int"
    /\ LET regs == Registers(call)
       IN Built(add_int(regs[1], regs[2], Context(ancillas), call.allow_overflow))

Build_add_classical_int ==
    /\ pc = "start"
    /\ call.routine = "add_classical_int"
    /\ Built(add_classical_int(call.x, Registers(call)[1], Context(ancillas), None))

Build_schoolbook_square ==
    /\ pc = "start"
    /\ call.routine = "schoolbook_square"
    /\ LET regs == Registers(call)
       IN Built(schoolbook_square(regs[1], regs[2], Context(ancillas), call.C_zero))

Build_karatsuba_square ==
    /\ pc = "start"
    /\ call.routine = "karatsuba_square"
    /\ LET regs == Registers(call)
       IN Built(karatsuba_square(regs[1], regs[2], Context(ancillas),
                                 call.cutoff, call.C_zero))

Build_schoolbook_mult ==
    /\ pc = "start"
    /\ call.routine = "schoolbook_mult"
    /\ LET regs == Registers(call)
       IN Built(schoolbook_mult(regs[1], regs[2], regs[3], Context(ancillas),
                                call.C_zero))

Build_karatsuba_mult ==
    /\ pc = "start"
    /\ call.routine = "karatsuba_mult"
    /\ LET regs == Registers(call)
       IN Built(karatsuba_mult(regs[1], regs[2], regs[3], Context(ancillas),
                               call.cutoff, call.C_zero))

Build_schoolbook_classical_mult ==
    /\ pc = "start"
    /\ call.routine = "schoolbook_classical_mult"
    /\ LET regs == Registers(call)
       IN Built(schoolbook_classical_mult(call.a, regs[1], regs[2], Context(ancillas),
                                          call.allow_overflow, call.C_zero))

Build_karatsuba_classical_mult ==
    /\ pc = "start"
    /\ call.routine = "karatsuba_classical_mult"
    /\ LET regs == Registers(call)
       IN Built(karatsuba_classical_mult(call.a, regs[1], regs[2], Context(ancillas),
                                         call.cutoff, call.allow_overflow, call.C_zero))

\* R, circ_gen = montgomery_reduce(T_reg, ancillas, N, mult=mult)
Call_montgomery_reduce ==
    /\ pc = "start"
    /\ call.routine = "montgomery_reduce"
    /\ Called(montgomery_reduce(Registers(call)[1], Context(ancillas), call.N, call.mult))

\* circ = cirq.Circuit(circ_gen, strategy=NEW)
Flatten_montgomery_reduce ==
    /\ pc = "called"
    /\ call.routine = "montgomery_reduce"
    /\ error = ""
    /\ Built(montgomery_reduce_ops(rtn, Registers(call)[1], Flattening,
                                   call.N, call.mult))

\* R, circ_gen = x2_mod_N(N, x_reg, y_reg, ancillas, method, threes=three)
Call_x2_mod_N ==
    /\ pc = "start"
    /\ call.routine = "x2_mod_N"
    /\ LET regs == Registers(call)
       IN Called(x2_mod_N(call.N, regs[1], regs[2], Context(ancillas),
                          call.mult_type, call.threes))

\* circ = cirq.Circuit(circ_gen, strategy=NEW)
Flatten_x2_mod_N ==
    /\ pc = "called"
    /\ call.routine = "x2_mod_N"
    /\ error = ""
    /\ LET regs == Registers(call)
       IN Built(x2_mod_N_ops(rtn, call.N, regs[1], regs[2], Flattening,
                             call.mult_type, call.threes))

\* x, y = extended_gcd(a, b)
Call_extended_gcd ==
    /\ pc = "start"
    /\ call.routine = "extended_gcd"
    /\ rtn' = extended_gcd(call.a, call.b)
    /\ pc' = "done"
    /\ UNCHANGED <<call, ancillas, trace, circ, error, input, state>>

\* the harness loads one of the inputs; a failed synthesis has no circuit to replay
Load ==
    /\ pc = "built"
    /\ error = ""
    /\ \E vals \in Inputs(call) :
          /\ input' = vals
          /\ state' = initial_state(Registers(call), vals, ancillas)
    /\ pc' = "loaded"
    /\ UNCHANGED <<call, ancillas, trace, circ, error, rtn>>

\* sim.simulate(state)
Simulate ==
    /\ pc = "loaded"
    /\ state' = simulate(circ, state)
    /\ pc' = "done"
    /\ UNCHANGED <<call, ancillas, trace, circ, error, input, rtn>>

\* the state before any call
Start(calls) ==
    /\ pc = "start"
    /\ call \in calls
    /\ ancillas = AncillaManager
    /\ trace = <<>>
    /\ circ = <<>>
    /\ error = ""
    /\ input = <<>>
    /\ state = <<>>
    /\ rtn = <<>>

\* what the harness reads back: state_to_int of the i-th register
Read(i) == state_to_int(state, Registers(call)[i])

-----------------------------------------------------------------------------
(* Additions: test_int_addition, test_classical_int_addition,              *)
(* test_int_addition_exceptions                                            *)

AddCalls ==
    {[routine |-> "add_int", n |-> n, m |-> m, allow_overflow |-> ao] :
        n \in 0..MaxLen, m \in 0..MaxLen, ao \in BOOLEAN}
    \cup
    {[routine |-> "add_classical_int", m |-> m, x |-> x] :
        m \in 0..MaxLen, x \in (-(2 ^ MaxLen))..(2 ^ MaxLen)}

InitAdd == Start(AddCalls)

NextAdd == Build_add_int \/ Build_add_classical_int \/ Load \/ Simulate

SpecAdd == InitAdd /\ [][NextAdd]_vars

-----------------------------------------------------------------------------
(* The comparison with a constant: test_lessthan_classical *)

\* the result cell is a cell of the caller, or, as in the test, an ancilla
\* issued before the call, which init_state() then loads with 0
LessCalls ==
    {[routine |-> "lessthan_classical", m |-> m, x |-> x, result |-> res] :
        m \in 0..MaxLen, x \in 0..(2 ^ MaxLen), res \in {"cell", "ancilla"}}

\* c = cirq.Circuit(lessthan_classical(b_reg, a, result, ancillas), strategy=NEW)
Build_lessthan_classical ==
    /\ pc = "start"
    /\ call.routine = "lessthan_classical"
    /\ LET regs == Registers(call)
       IN Built(lessthan_classical(regs[1], call.x, regs[2][1],
                                   Context(IF call.result = "ancilla"
                                           THEN new(ancillas) ELSE ancillas)))

InitLess == Start(LessCalls)

NextLess == Build_lessthan_classical \/ Load \/ Simulate

SpecLess == InitLess /\ [][NextLess]_vars

-----------------------------------------------------------------------------
(* The controlled addition of a constant, as montgomery_reduce uses it *)

ControlCalls ==
    {[routine |-> "add_classical_int_control", m |-> m, x |-> x] :
        m \in 0..MaxLen, x \in (-(2 ^ MaxLen))..(2 ^ MaxLen)}

\* c = cirq.Circuit(add_classical_int(x, b_reg, ancillas, control), strategy=NEW)
Build_add_classical_int_control ==
    /\ pc = "start"
    /\ call.routine = "add_classical_int_control"
    /\ LET regs == Registers(call)
       IN Built(add_classical_int(call.x, regs[1], Context(ancillas), regs[2][1]))

InitControl == Start(ControlCalls)

NextControl == Build_add_classical_int_control \/ Load \/ Simulate

SpecControl == InitControl /\ [][NextControl]_vars

-----------------------------------------------------------------------------
(* Multiplications and squarings: test_square, test_mult, test_classical_mult *)

\* the cutoff arguments: the default, and the two smallest that are accepted
Cutoffs == {<<>>, <<4>>, <<5>>}

\* lengths of A and B that make karatsuba_mult recurse twice
LongShapes == {<<10, 10>>, <<9, 12>>, <<12, 9>>}

\* constants of the classical multipliers: the short ones, and longer patterns
ClassicalConstants == (0..4) \cup {8, 21, 32, 47, 63}

SquareCalls ==
    {[routine |-> "schoolbook_square", n |-> n, k |-> 2 * n,
      cutoff |-> <<>>, C_zero |-> FALSE] : n \in 0..MaxSq}
    \cup
    {[routine |-> "karatsuba_square", n |-> n, k |-> 2 * n,
      cutoff |-> c, C_zero |-> FALSE] : n \in 0..MaxSq, c \in Cutoffs}

\* <<len(A), len(B), len(C)>>: the short shapes with C exact and one cell
\* longer, the long ones with C exact
MultShapes ==
    {<<n, m, n + m + e>> : n \in 0..MaxMul, m \in 0..MaxMul, e \in 0..1}
    \cup {<<sh[1], sh[2], sh[1] + sh[2]>> : sh \in LongShapes}

MultCalls ==
    {[routine |-> "schoolbook_mult", n |-> sh[1], m |-> sh[2], k |-> sh[3],
      cutoff |-> <<>>, C_zero |-> FALSE] : sh \in MultShapes}
    \cup
    {[routine |-> "karatsuba_mult", n |-> sh[1], m |-> sh[2], k |-> sh[3],
      cutoff |-> c, C_zero |-> FALSE] : sh \in MultShapes, c \in Cutoffs}

ClassicalMultCalls ==
    {[routine |-> "schoolbook_classical_mult", a |-> a, m |-> m,
      k |-> bit_length(a) + m + e, cutoff |-> <<>>,
      allow_overflow |-> FALSE, C_zero |-> FALSE] :
        a \in ClassicalConstants, m \in 0..MaxMul, e \in 0..1}
    \cup
    {[routine |-> "karatsuba_classical_mult", a |-> a, m |-> m,
      k |-> bit_length(a) + m + e, cutoff |-> c,
      allow_overflow |-> FALSE, C_zero |-> FALSE] :
        a \in ClassicalConstants, m \in 0..MaxMul, e \in 0..1, c \in Cutoffs}

InitSquare == Start(SquareCalls)

NextSquare == Build_schoolbook_square \/ Build_karatsuba_square \/ Load \/ Simulate

SpecSquare == InitSquare /\ [][NextSquare]_vars

InitMult == Start(MultCalls)

NextMult == Build_schoolbook_mult \/ Build_karatsuba_mult \/ Load \/ Simulate

SpecMult == InitMult /\ [][NextMult]_vars

InitClassicalMult == Start(ClassicalMultCalls)

NextClassicalMult ==
    Build_schoolbook_classical_mult \/ Build_karatsuba_classical_mult \/ Load \/ Simulate

SpecClassicalMult == InitClassicalMult /\ [][NextClassicalMult]_vars

-----------------------------------------------------------------------------
(* The recursion of the Karatsuba routines, for every cutoff *)

\* the calls of the multipliers and squarers in the mode C_zero
ZeroCalls ==
    {[c EXCEPT !.C_zero = TRUE] : c \in SquareCalls \cup MultCalls \cup ClassicalMultCalls}

InitZero == Start(ZeroCalls)

NextZero ==
    \/ Build_schoolbook_square \/ Build_karatsuba_square
    \/ Build_schoolbook_mult \/ Build_karatsuba_mult
    \/ Build_schoolbook_classical_mult \/ Build_karatsuba_classical_mult
    \/ Load \/ Simulate

SpecZero == InitZero /\ [][NextZero]_vars

-----------------------------------------------------------------------------
(* The recursion of the Karatsuba routines, for every cutoff *)

\* None and the cutoffs around the smallest one accepted
KCutoffs == {<<>>} \cup {<<c>> : c \in 0..5}

\* constants of one, three, six and eight bits, and a negative one
KConstants == {-3, 1, 5, 45, 173}

KaratsubaCalls ==
    {[routine |-> "karatsuba_mult", n |-> n, m |-> m, k |-> n + m,
      cutoff |-> c, C_zero |-> z] :
        n \in 0..MaxKLen, m \in 0..MaxKLen, c \in KCutoffs, z \in BOOLEAN}
    \cup
    {[routine |-> "karatsuba_square", n |-> n, k |-> 2 * n,
      cutoff |-> c, C_zero |-> z] :
        n \in 0..MaxKLen, c \in KCutoffs, z \in BOOLEAN}
    \cup
    {[routine |-> "karatsuba_classical_mult", a |-> a, m |-> m, k |-> k,
      cutoff |-> c, allow_overflow |-> ao, C_zero |-> FALSE] :
        a \in KConstants, m \in 0..MaxKLen, k \in 0..(2 * MaxKLen),
        c \in KCutoffs, ao \in BOOLEAN}

InitKaratsuba == Start(KaratsubaCalls)

NextKaratsuba ==
    Build_karatsuba_mult \/ Build_karatsuba_square \/ Build_karatsuba_classical_mult

SpecKaratsuba == InitKaratsuba /\ [][NextKaratsuba]_vars

-----------------------------------------------------------------------------
(* extended_gcd: test_extended_gcd *)

RECURSIVE gcd(_, _)
gcd(a, b) == IF b = 0 THEN a ELSE gcd(b, a % b)

GcdCalls ==
    {[routine |-> "extended_gcd", a |-> a, b |-> b] :
        a \in 1..MaxAB, b \in 1..MaxAB}

InitGcd == Start(GcdCalls)

NextGcd == Call_extended_gcd

SpecGcd == InitGcd /\ [][NextGcd]_vars

-----------------------------------------------------------------------------
(* Montgomery reduction: test_montgomery_reduce *)

Strategies ==
    {[type |-> "schoolbook", cutoff |-> <<>>], [type |-> "karatsuba", cutoff |-> <<>>],
     [type |-> "karatsuba", cutoff |-> <<4>>]}

MontCalls ==
    {[routine |-> "montgomery_reduce", N |-> N, k |-> 2 * bit_length(N) + 1, mult |-> mu] :
        N \in {M \in 1..MaxN : M % 2 = 1}, mu \in Strategies}

InitMont == Start(MontCalls)

NextMont == Call_montgomery_reduce \/ Flatten_montgomery_reduce \/ Load \/ Simulate

SpecMont == InitMont /\ [][NextMont]_vars

-----------------------------------------------------------------------------
(* The composed program: test_x2modN *)

X2Calls ==
    {[routine |-> "x2_mod_N", N |-> N, threes |-> th, mult_type |-> mt] :
        N \in {M \in 1..MaxN : M % 2 = 1} \cup {77}, th \in 0..MaxThrees,
        mt \in {"schoolbook", "karatsuba"}}

InitX2 == Start(X2Calls)

NextX2 == Call_x2_mod_N \/ Flatten_x2_mod_N \/ Load \/ Simulate

SpecX2 == InitX2 /\ [][NextX2]_vars

-----------------------------------------------------------------------------
(* The allocator alone: test_new, test_new_register, and calls of discard.  *)
(* trace holds one event per call made on the manager: the call, what it    *)
(* was given (discard) or returned (new, new_register), the manager before  *)
(* and after it, and the exception that left it, if any.                    *)

\* the event of a call
Event(kind, single, qubits, before, after, err) ==
    [kind |-> kind, single |-> single, qubits |-> qubits,
     before |-> before, after |-> after, err |-> err]

\* the call has been made: a is the manager after it
Made(kind, single, qubits, a, err) ==
    /\ ancillas' = a
    /\ trace' = Append(trace, Event(kind, single, qubits, ancillas, a, err))
    /\ error' = err
    /\ rtn' = IF kind = "discard" THEN <<>> ELSE IF single THEN qubits[1] ELSE qubits
    /\ UNCHANGED <<pc, call, circ, input, state>>

\* the Ancilla objects a call appended to _qubits, which it returns
appended(before, after) ==
    [i \in 1..(Len(after.qubits) - Len(before.qubits)) |->
        after.qubits[Len(before.qubits) + i].name]

\* q = a.new()
Op_new ==
    /\ pc = "api"
    /\ Len(trace) < MaxOps
    /\ len(ancillas) < MaxIssued
    /\ Made("new", TRUE, appended(ancillas, new(ancillas)), new(ancillas), "")

\* qubits = a.new_register(n)
Op_new_register ==
    /\ pc = "api"
    /\ Len(trace) < MaxOps
    /\ \E n \in 0..MaxRegLen :
          /\ len(ancillas) + n <= MaxIssued
          /\ Made("new_register", FALSE,
                  appended(ancillas, new_register(ancillas, n)),
                  new_register(ancillas, n), "")

\* a qubit that no manager issued
NamedQubit == <<"x", 0>>

\* the qubits a caller can hand to discard: the ancillas issued so far, live
\* or retired, and the qubit that is no ancilla
Cells(self) == {self.qubits[i].name : i \in 1..Len(self.qubits)} \cup {NamedQubit}

\* the arguments of discard: one qubit, or a list of none, one or two qubits
\* (the same qubit twice included)
DiscardArgs(self) ==
    {[single |-> TRUE, qubits |-> <<q>>] : q \in Cells(self)}
    \cup {[single |-> FALSE, qubits |-> qs] :
             qs \in {<<>>} \cup {<<q>> : q \in Cells(self)}
                          \cup {<<p, q>> : p \in Cells(self), q \in Cells(self)}}

\* a.discard(qubits)
Op_discard ==
    /\ pc = "api"
    /\ Len(trace) < MaxOps
    /\ \E arg \in DiscardArgs(ancillas) :
          Made("discard", arg.single, arg.qubits,
               discard_any(ancillas, arg.single, arg.qubits).self,
               discard_any(ancillas, arg.single, arg.qubits).err)

InitAnc ==
    /\ pc = "api"
    /\ call = [routine |-> "AncillaManager"]
    /\ ancillas = AncillaManager
    /\ trace = <<>>
    /\ circ = <<>>
    /\ error = ""
    /\ input = <<>>
    /\ state = <<>>
    /\ rtn = <<>>

NextAnc == Op_new \/ Op_new_register \/ Op_discard

SpecAnc == InitAnc /\ [][NextAnc]_vars

-----------------------------------------------------------------------------
(* The simulator on arbitrary short programs *)

\* the cells of the programs
SimCells == NamedQubitRange(3, "x")

\* the gates a program is made of; H stands for every gate of neither set
SimGates ==
    {X(SimCells[i]) : i \in 1..3}
    \cup {CNOT(SimCells[p[1]], SimCells[p[2]]) :
             p \in {q \in (1..3) \X (1..3) : q[1] # q[2]}}
    \cup {TOFFOLI(SimCells[p[1]], SimCells[p[2]], SimCells[p[3]]) :
             p \in {<<1, 2, 3>>, <<1, 3, 2>>, <<2, 3, 1>>}}
    \cup {Y(SimCells[i]) : i \in 1..3}
    \cup {Z(SimCells[i]) : i \in 1..3}
    \cup {H(SimCells[1])}

\* the circuit handed to ToffoliSimulator(c) grows by one operation
Op_append ==
    /\ pc = "program"
    /\ Len(circ) < MaxGates
    /\ \E g \in SimGates : circ' = Append(circ, g)
    /\ UNCHANGED <<pc, call, ancillas, trace, error, input, state, rtn>>

\* sim.simulate(state): the dictionary is changed in place up to the
\* operation that raises, and the sign is returned only without an exception
\* (rtn = 0: nothing returned)
Op_simulate ==
    /\ pc \in {"program", "once"}
    /\ input' = state
    /\ trace' = simulate_call(circ, state)
    /\ state' = trace'[Len(trace')].state
    /\ error' = trace'[Len(trace')].err
    /\ rtn' = IF error' = "" THEN trace'[Len(trace')].phase ELSE 0
    /\ pc' = IF pc = "program" THEN "once" ELSE "twice"
    /\ UNCHANGED <<call, ancillas, circ>>

InitSim ==
    /\ pc = "program"
    /\ call = [routine |-> "simulate"]
    /\ ancillas = AncillaManager
    /\ trace = <<>>
    /\ circ = <<>>
    /\ error = ""
    /\ input = <<>>
    /\ state \in [{SimCells[i] : i \in 1..3} -> {0, 1}]
    /\ rtn = 0

NextSim == Op_append \/ Op_simulate

SpecSim == InitSim /\ [][NextSim]_vars

-----------------------------------------------------------------------------
(* The entry checks of montgomery_reduce and x2_mod_N: calls on registers   *)
(* of any length, on an allocator that may have been used before            *)

CheckCalls ==
    {[routine |-> "montgomery_reduce", N |-> N, k |-> k,
      mult |-> [type |-> "schoolbook", cutoff |-> <<>>]] :
        N \in 0..MaxN, k \in 0..MaxY}
    \cup
    {[routine |-> "x2_mod_N", N |-> N, threes |-> th, mult_type |-> mt,
      n |-> n, k |-> k] :
        N \in 0..MaxCheckN, th \in 0..MaxThrees,
        mt \in {"schoolbook", "karatsuba"}, n \in 0..MaxX, k \in 0..MaxY}

\* a new allocator, and one that has issued two ancillas and retired the first
UsedAllocators ==
    {AncillaManager, discard(new_register(AncillaManager, 2), <<Ancilla(0)>>)}

\* input holds the allocator as it was before the call
InitCheck ==
    /\ pc = "start"
    /\ call \in CheckCalls
    /\ ancillas \in UsedAllocators
    /\ trace = <<>>
    /\ circ = <<>>
    /\ error = ""
    /\ input = ancillas
    /\ state = <<>>
    /\ rtn = <<>>

NextCheck == Call_montgomery_reduce \/ Call_x2_mod_N \/ Flatten_x2_mod_N

SpecCheck == InitCheck /\ [][NextCheck]_vars

-----------------------------------------------------------------------------
(* analysis/count_gates.py: main, for one problem size n and one of the     *)
(* digital implementations, with the flag -d (call.d) and without it        *)

\* N = randint(0, 2**n-1) | 1 | (1<<(n-1)): the odd numbers of n bits
CountN(n) == {N \in 1..(2 ^ n - 1) : N % 2 = 1 /\ bit_length(N) = n}

\* x_reg of n cells, y_reg of 2n+1 cells, x2_mod_N(N, x_reg, y_reg, ancillas, impl)
CountCalls ==
    UNION {{[routine |-> "x2_mod_N", N |-> N, threes |-> 0, mult_type |-> impl,
             n |-> n, k |-> 2 * n + 1, d |-> d, no_decompose |-> nd] :
                N \in CountN(n), impl \in {"schoolbook", "karatsuba"},
                d \in BOOLEAN, nd \in BOOLEAN} : n \in 1..MaxCountN}

\* the operations of c whose gate is cirq.TOFFOLI
Toffolis(c) == Cardinality({i \in 1..Len(c) : c[i].kind = "TOFFOLI"})

\* describe(c, decompose): the numbers of gates and of T gates; the depth is
\* read off the moments of cirq.Circuit and is not part of the model
describe(c, decompose) ==
    IF decompose
    THEN [gates |-> 15 * Toffolis(c) + (Len(c) - Toffolis(c)),
          t_gates |-> 7 * Toffolis(c)]
    ELSE [gates |-> Len(c), t_gates |-> 0]

\* c = fast_flatten(circ_gen): a generator object is made, none of its code
\* has run
Main_fast_flatten ==
    /\ pc = "called"
    /\ ~call.d
    /\ error = ""
    /\ pc' = "lazy"
    /\ UNCHANGED <<call, ancillas, trace, circ, error, input, state, rtn>>

\* the generators of circ_gen have run to their end; without -d the loops of
\* describe have counted the gates as they came
Generated(s) ==
    /\ pc' = (IF call.d THEN "built" ELSE "described")
    /\ ancillas' = s.ancillas
    /\ trace' = s.trace
    /\ circ' = Circuit(s.trace)
    /\ error' = s.err
    /\ state' = (IF call.d THEN state ELSE describe(circ', ~call.no_decompose))
    /\ UNCHANGED <<call, input, rtn>>

\* the generators run where c is consumed: with -d in
\* c = cirq.Circuit(circ_gen, strategy=cirq.InsertStrategy.EARLIEST), before
\* the check; without it in describe(c, not args.no_decompose), after the check
Main_generate ==
    /\ pc = (IF call.d THEN "called" ELSE "checked")
    /\ error = ""
    /\ LET regs == Registers(call)
       IN Generated(x2_mod_N_ops(rtn, call.N, regs[1], regs[2], Flattening,
                                 call.mult_type, call.threes))

\* if not ancillas.all_discarded(): print("qubit memory leak! ..."); input
\* keeps what the check printed and what it could see
Main_all_discarded ==
    /\ pc \in {"built", "lazy"}
    /\ error = ""
    /\ input' = [warning |-> ~all_discarded(ancillas),
                 n_active |-> ancillas.n_active,
                 issued |-> Len(ancillas.qubits),
                 gates |-> Len(Circuit(trace))]
    /\ pc' = "checked"
    /\ UNCHANGED <<call, ancillas, trace, circ, error, state, rtn>>

\* gates, t_gates, depth = describe(c, not args.no_decompose) on the circuit
\* that -d has built
Main_describe ==
    /\ pc = "checked"
    /\ call.d
    /\ state' = describe(circ, ~call.no_decompose)
    /\ pc' = "described"
    /\ UNCHANGED <<call, ancillas, trace, circ, error, input, rtn>>

\* meas = ancillas.count_measurements(): AncillaManager has no such method
Main_count_measurements ==
    /\ pc = "described"
    /\ error = ""
    /\ error' = "AttributeError: 'AncillaManager' object has no attribute 'count_measurements'"
    /\ pc' = "failed"
    /\ UNCHANGED <<call, ancillas, trace, circ, input, state, rtn>>

InitCount == Start(CountCalls)

NextCount ==
    \/ Call_x2_mod_N
    \/ Main_generate
    \/ Main_fast_flatten
    \/ Main_all_discarded
    \/ Main_describe
    \/ Main_count_measurements

SpecCount == InitCount /\ [][NextCount]_vars

-----------------------------------------------------------------------------
(* Properties of the composed program x2_mod_N *)

\* the y cells from index bitlen(R)-1 upward, read as an integer
ReadHigh(i, r) == state_to_int(state, From(Registers(call)[i], r))

\* the y cells below index bitlen(R)-1, read as an integer
ReadLow(i, r) == state_to_int(state, Upto(Registers(call)[i], r))

\* C1: for every odd N, every threes, both mult_type values and registers
\* sized by get_registers, x2_mod_N builds a program without error, and
\* replaying it on x_reg = x < N, y_reg = 0, ancillas = 0 leaves
\* x_reg = factor*x and, in the y cells from index bitlen(R)-1 upward, a value
\* ry < factor^2*N with R*ry divisible by factor^2 and
\* (R*ry // factor^2) mod N = x^2 mod N.
C1_x2_mod_N_end_to_end ==
    call.routine = "x2_mod_N" =>
        /\ pc \in {"called", "built"} => error = ""
        /\ pc = "done" =>
              LET factor == 3 ^ call.threes
                  x == input[1]
                  R == rtn.R
                  ry == ReadHigh(2, bit_length(R) - 1)
              IN /\ Read(1) = factor * x
                 /\ ry < factor ^ 2 * call.N
                 /\ (R * ry) % (factor ^ 2) = 0
                 /\ ((R * ry) \div (factor ^ 2)) % call.N = (x * x) % call.N

\* the scenario N = 77, x = 5: the caller recovers 25
C1_witness ==
    /\ pc = "done"
    /\ call.routine = "x2_mod_N"
    /\ call.N = 77
    /\ call.threes = 0
    /\ input[1] = 5
    /\ (rtn.R * ReadHigh(2, bit_length(rtn.R) - 1)) % 77 = 25

-----------------------------------------------------------------------------
(* Properties of montgomery_reduce *)

\* C2: Montgomery round trip.  For every odd N, every T < N*2^bitlen(N) in a
\* register of 2*bitlen(N)+1 cells and each multiplier strategy, the program
\* is built without error, the returned R is 2^bitlen(N), and after the
\* replay the low bitlen(N) cells of T read 0, the remaining cells read an
\* r < N, and (r*R) mod N = T mod N.
C2_montgomery_round_trip ==
    call.routine = "montgomery_reduce" =>
        /\ pc \in {"called", "built"} => error = ""
        /\ pc # "start" => rtn.R = 2 ^ bit_length(call.N)
        /\ pc = "done" =>
              LET n == bit_length(call.N)
                  r == ReadHigh(1, n)
              IN /\ ReadLow(1, n) = 0
                 /\ r < call.N
                 /\ (r * rtn.R) % call.N = input[1] % call.N

\* a reduction by the recursive multiplier in which T is not below N and the
\* residue read back is not zero
C2_witness ==
    /\ pc = "done"
    /\ call.routine = "montgomery_reduce"
    /\ call.mult = [type |-> "karatsuba", cutoff |-> <<4>>]
    /\ call.N = 17
    /\ input[1] > 17 * 17
    /\ ReadHigh(1, 5) > 0

\* the ancillas retired by the events tr[1..j-1]
RetiredBefore(tr, j) ==
    UNION {{tr[i].qubits[h] : h \in 1..Len(tr[i].qubits)} :
              i \in {i \in 1..(j - 1) : tr[i].kind = "discard"}}

\* C9: in the order in which the synthesis events of a montgomery_reduce (or
\* x2_mod_N) program occur, the call and then the flattening, no gate is
\* emitted that has as operand an ancilla already retired.
C9_no_gate_on_retired_ancilla ==
    pc = "built" =>
        \A j \in 1..Len(trace) :
            IsGate(trace[j]) =>
                \A h \in 1..Len(trace[j].qubits) :
                    trace[j].qubits[h] \notin RetiredBefore(trace, j)

-----------------------------------------------------------------------------
(* Properties of the additions *)

\* C3: for all registers with len(A) <= len(B) and all values a, b, add_int
\* builds a program, and after its replay from ancillas = 0, A reads back a
\* and B reads back (a+b) mod 2^|B|.
C3_add_int ==
    (call.routine = "add_int" /\ call.n <= call.m /\ ~call.allow_overflow) =>
        /\ pc = "built" => error = ""
        /\ pc = "done" =>
              /\ Read(1) = input[1]
              /\ Read(2) = (input[1] + input[2]) % (2 ^ call.m)

\* C4: add_classical_int(x, A) without control builds a program for every
\* constant x whose bit length is at most len(A), and its replay from
\* ancillas = 0 leaves A = (a+x) mod 2^|A|; a constant whose bit length
\* exceeds len(A) is rejected with an error.
C4_add_classical_int ==
    call.routine = "add_classical_int" =>
        /\ (pc = "built" /\ bit_length(call.x) <= call.m) => error = ""
        /\ (pc = "built" /\ bit_length(call.x) > call.m) => error # ""
        /\ pc = "done" => Read(1) = (input[1] + call.x) % (2 ^ call.m)

\* 27 added to a register of 5 cells holding 27 wraps around to 22
C4_witness ==
    /\ pc = "done"
    /\ call.routine = "add_classical_int"
    /\ call.x = 27
    /\ call.m = 5
    /\ input[1] = 27
    /\ Read(1) = 22

\* the value of ancilla number idx in the replayed state
AncillaValue(idx) == state[Ancilla(idx)]

-----------------------------------------------------------------------------
(* Properties of the multipliers and squarers *)

\* C5: for both squaring strategies (karatsuba_square with any cutoff >= 4),
\* an n-cell register A holding a and a 2n-cell register B holding any b, the
\* program is built without error and its replay from ancillas = 0 leaves
\* B = (b + a^2) mod 2^(2n) and A = a.
C5_squaring ==
    (call.routine \in {"schoolbook_square", "karatsuba_square"}
     /\ call.k = 2 * call.n) =>
        /\ pc = "built" => error = ""
        /\ pc = "done" =>
              /\ Read(1) = input[1]
              /\ Read(2) = (input[2] + input[1] * input[1]) % (2 ^ (2 * call.n))

\* a recursive squaring of the largest value of the longest register into a
\* register that was not empty
C5_witness ==
    /\ pc = "done"
    /\ call.routine = "karatsuba_square"
    /\ call.cutoff = <<4>>
    /\ call.n = MaxSq
    /\ input[1] = 2 ^ MaxSq - 1
    /\ input[2] = 1
    /\ Read(2) = (1 + input[1] * input[1]) % (2 ^ (2 * MaxSq))

\* what the registers read in the state st
ReadAll(regs, st) == [i \in 1..Len(regs) |-> state_to_int(st, regs[i])]

\* what the registers read after the replay of the program built on vals
FinalValues(regs, vals, built) ==
    ReadAll(regs, simulate(Circuit(built.trace),
                           initial_state(regs, vals, built.ancillas)))

\* the registers A, B, C of the current call after schoolbook_mult on input
SchoolbookMultFinal ==
    LET regs == Registers(call)
    IN FinalValues(regs, input,
                   schoolbook_mult(regs[1], regs[2], regs[3],
                                   Context(AncillaManager), FALSE))

\* C6: for len(C) >= len(A)+len(B), all values and every cutoff >= 4,
\* karatsuba_mult is built without error and leaves the same final values in
\* A, B and C as schoolbook_mult: A and B unchanged, C = (c + a*b) mod 2^|C|,
\* whichever operand is the longer.  Both routines are held to these values on
\* the same calls and inputs; for operands of up to MaxMul cells the program
\* of schoolbook_mult is also replayed on the input of karatsuba_mult and the
\* registers compared.
C6_karatsuba_mult_equivalence ==
    (call.routine \in {"karatsuba_mult", "schoolbook_mult"}
     /\ call.k >= call.n + call.m) =>
        /\ pc = "built" => error = ""
        /\ pc = "done" =>
              /\ Read(1) = input[1]
              /\ Read(2) = input[2]
              /\ Read(3) = (input[3] + input[1] * input[2]) % (2 ^ call.k)
              /\ (call.routine = "karatsuba_mult"
                  /\ call.n <= MaxMul /\ call.m <= MaxMul) =>
                     <<Read(1), Read(2), Read(3)>> = SchoolbookMultFinal

\* a product by recursion, cutoff 4, B the longer operand, C not empty
C6_witness ==
    /\ pc = "done"
    /\ call.routine = "karatsuba_mult"
    /\ call.cutoff = <<4>>
    /\ call.n = 9
    /\ call.m = 12
    /\ input[1] = 2 ^ 9 - 1
    /\ input[2] = 2 ^ 12 - 1
    /\ input[3] = 2 ^ call.k - 1
    /\ Read(3) = (input[3] + input[1] * input[2]) % (2 ^ call.k)

\* B and C of the current call after karatsuba_mult with, as first operand,
\* a register of bitlen(a) cells holding a
RegisterMultFinal ==
    LET A == NamedQubitRange(bit_length(call.a), "a")
        regs == <<A>> \o Registers(call)
        vals == <<call.a>> \o input
        fin == FinalValues(regs, vals,
                           karatsuba_mult(A, regs[2], regs[3],
                                          Context(AncillaManager), call.cutoff, FALSE))
    IN <<fin[2], fin[3]>>

\* C7: for a >= 0 and bitlen(a)+len(B) <= len(C), both classical multipliers
\* (karatsuba_classical_mult with any cutoff >= 4) are built without error and
\* leave B unchanged and C = (c + a*b) mod 2^|C|, which is what karatsuba_mult
\* leaves when its first operand is a register holding a.
C7_classical_mult ==
    (call.routine \in {"schoolbook_classical_mult", "karatsuba_classical_mult"}
     /\ call.a >= 0 /\ bit_length(call.a) + call.m <= call.k) =>
        /\ pc = "built" => error = ""
        /\ pc = "done" =>
              /\ Read(1) = input[1]
              /\ Read(2) = (input[2] + call.a * input[1]) % (2 ^ call.k)
              /\ <<Read(1), Read(2)>> = RegisterMultFinal

\* a product by recursion of a constant of 6 bits, cutoff 4
C7_witness ==
    /\ pc = "done"
    /\ call.routine = "karatsuba_classical_mult"
    /\ call.cutoff = <<4>>
    /\ call.a = 47
    /\ call.m = MaxMul
    /\ input[1] = 2 ^ MaxMul - 1
    /\ input[2] = 2 ^ call.k - 1
    /\ Read(2) = (input[2] + 47 * input[1]) % (2 ^ call.k)

-----------------------------------------------------------------------------
(* Properties of extended_gcd *)

\* C8: for coprime a, b > 0, extended_gcd(a, b) returns (x, y) with
\* a*x congruent to 1 modulo b, 0 <= x < b, b*y congruent to -1 modulo a and
\* 0 <= y < a.
C8_extended_gcd ==
    (pc = "done" /\ call.routine = "extended_gcd" /\ gcd(call.a, call.b) = 1) =>
        LET x == rtn[1]
            y == rtn[2]
        IN /\ (call.a * x) % call.b = 1 % call.b
           /\ 0 <= x /\ x < call.b
           /\ (call.b * y) % call.a = (-1) % call.a
           /\ 0 <= y /\ y < call.a

\* extended_gcd(32, 5) = (3, 19): 32*3 = 19*5 + 1 and 5*19 = 3*32 - 1
C8_witness ==
    /\ pc = "done"
    /\ call.routine = "extended_gcd"
    /\ call.a = 32
    /\ call.b = 5
    /\ rtn = <<3, 19>>

-----------------------------------------------------------------------------
(* Properties of the allocator after and during a synthesis *)

\* C11: after any top-level x2_mod_N synthesis whose program has been
\* completely flattened, for every N, threes and mult_type, the live-ancilla
\* count is 0: all_discarded() is true.
C11_no_leak ==
    (call.routine = "x2_mod_N" /\ pc \in {"built", "loaded", "done"}) =>
        all_discarded(ancillas)

\* the program of N = 77 by the recursive multiplier, with one
\* multiplication by three: ancillas were issued, and none is live
C11_witness ==
    /\ pc = "built"
    /\ error = ""
    /\ call.routine = "x2_mod_N"
    /\ call.N = 77
    /\ call.threes = 1
    /\ call.mult_type = "karatsuba"
    /\ len(ancillas) > 0
    /\ max_ancilla_usage(ancillas) > 0
    /\ all_discarded(ancillas)


\* the retirements of the events of tr: the positions <<j, h>> of the qubits
\* given to a discard
Retirements(tr) ==
    UNION {{<<j, h>> : h \in 1..Len(tr[j].qubits)} :
              j \in {i \in 1..Len(tr) : tr[i].kind = "discard"}}

\* the qubits retired at the positions ps of tr
Retired(tr, ps) == {tr[p[1]].qubits[p[2]] : p \in ps}

\* every qubit of issued is retired by the events of tr, and no qubit twice:
\* there are as many retirements as qubits retired
RetiredOnce(tr, ps, issued) ==
    /\ Retired(tr, ps) = issued
    /\ Cardinality(ps) = Cardinality(issued)

\* the ends of invocations recorded in tr
Returns(tr) == {j \in 1..Len(tr) : tr[j].kind = "return"}

\* C12: in the events of the construction and flattening of a program, every
\* ancilla issued is retired exactly once, and every invocation of a routine
\* ends with the live count it started with and with every ancilla issued
\* since its start retired.
C12_retired_once_by_allocator ==
    (pc = "built" /\ error = "") =>
        /\ RetiredOnce(trace, Retirements(trace),
                       {Ancilla(idx) : idx \in 0..(len(ancillas) - 1)})
        /\ \A j \in Returns(trace) :
              /\ trace[j].live_out = trace[j].live_in
              /\ trace[j].still_live = {}

\* a recursive squaring: an invocation of karatsuba_mult inside it issued
\* ancillas and ended with all of them retired
C12_witness ==
    /\ pc = "built"
    /\ error = ""
    /\ call.routine = "karatsuba_square"
    /\ call.cutoff = <<4>>
    /\ call.n = MaxSq
    /\ \E j \in Returns(trace) :
          /\ trace[j].routine = "karatsuba_mult"
          /\ trace[j].live_in > 0
          /\ trace[j].issued_out > trace[j].issued_in + 4
          /\ trace[j].live_out = trace[j].live_in
    /\ \E j \in Returns(trace) : trace[j].routine = "schoolbook_square"


-----------------------------------------------------------------------------
(* Properties of the allocator alone *)

\* the manager holds q as retired
IsRetired(self, q) ==
    \E i \in 1..Len(self.qubits) : self.qubits[i].name = q /\ self.qubits[i].isgarbage

\* the calls of discard in the history
Discards == {j \in 1..Len(trace) : trace[j].kind = "discard"}

\* C13: discard fails whenever a cell it is given is already retired or is
\* not an ancilla; in particular a second retirement of the same ancilla is
\* rejected and does not decrement the live count again.
C13_discard_rejects ==
    \A j \in Discards :
        (\E h \in 1..Len(trace[j].qubits) :
            \/ ~IsAncilla(trace[j].qubits[h])
            \/ IsRetired(trace[j].before, trace[j].qubits[h]))
        => /\ trace[j].err # ""
           /\ trace[j].after.n_active = trace[j].before.n_active


\* the names of the ancillas a manager holds
Names(self) == {self.qubits[i].name : i \in 1..Len(self.qubits)}

\* the number of ancillas issued by the calls of tr
RECURSIVE IssuedCount(_)
IssuedCount(tr) ==
    IF tr = <<>> THEN 0
    ELSE (IF tr[1].kind = "discard" THEN 0 ELSE Len(tr[1].qubits)) + IssuedCount(Tail(tr))

\* the calls of new and new_register in the history
Allocations == {j \in 1..Len(trace) : trace[j].kind \in {"new", "new_register"}}

LiveCounts(j) == {0} \cup {trace[i].after.n_active : i \in 1..j}

\* the largest element of a set of integers
Largest(S) == CHOOSE x \in S : \A y \in S : y <= x

\* C15: new() increases the live count by exactly 1 and new_register(n) by
\* exactly n, a discard that returns decreases it by the number of cells
\* given, and after every call max_ancilla_usage() is the largest live count
\* reached so far: it never decreases, is never below the live count, and is
\* left unchanged by discard.
C15_live_count_and_maximum ==
    \A j \in 1..Len(trace) :
        LET e == trace[j]
        IN /\ e.kind = "new" => e.after.n_active = e.before.n_active + 1
           /\ e.kind = "new_register" =>
                  e.after.n_active = e.before.n_active + Len(e.qubits)
           /\ (e.kind = "discard" /\ e.err = "") =>
                  e.after.n_active = e.before.n_active - Len(e.qubits)
           /\ max_ancilla_usage(e.after) = Largest(LiveCounts(j))
           /\ max_ancilla_usage(e.after) >= max_ancilla_usage(e.before)
           /\ max_ancilla_usage(e.after) >= e.after.n_active
           /\ e.kind = "discard" =>
                  max_ancilla_usage(e.after) = max_ancilla_usage(e.before)

\* a register of two, a retirement of one of them, and one more ancilla:
\* the live count is back at 2, which is also the maximum
C15_witness ==
    /\ Len(trace) = 3
    /\ trace[1].kind = "new_register"
    /\ Len(trace[1].qubits) = 2
    /\ trace[2].kind = "discard"
    /\ trace[2].after.n_active = 1
    /\ max_ancilla_usage(trace[2].after) = 2
    /\ trace[3].kind = "new"
    /\ ancillas.n_active = 2
    /\ max_ancilla_usage(ancillas) = 2
    /\ len(ancillas) = 3


-----------------------------------------------------------------------------
(* Properties of max_ancilla_usage after a synthesis *)

\* the positions of the gates of c that touch the qubit q
Touches(c, q) == {j \in 1..Len(c) : \E h \in 1..Len(c[j].qubits) : c[j].qubits[h] = q}

\* the smallest element of a set of integers
Smallest(S) == CHOOSE x \in S : \A y \in S : x <= y

\* <<q, first, last>> for every qubit q of qs that a gate of c touches: the
\* positions of the first and of the last gate that touch it
Lifetimes(c, qs) ==
    {<<qs[i], Smallest(Touches(c, qs[i])), Largest(Touches(c, qs[i]))>> :
        i \in {k \in 1..Len(qs) : Touches(c, qs[k]) # {}}}

\* the number of qubits in use at gate p
InUse(lives, p) == Cardinality({l \in lives : l[2] <= p /\ p <= l[3]})

\* at no gate of c are more than n qubits in use
NeverMoreInUse(lives, c, n) == \A p \in 1..Len(c) : InUse(lives, p) <= n

\* C16: after an x2_mod_N program has been completely flattened,
\* max_ancilla_usage() is not less than the number of ancillas in use at any
\* gate of the program, an ancilla being in use from the first gate that
\* touches it to the last.
C16_maximum_covers_use ==
    (call.routine = "x2_mod_N" /\ pc = "built" /\ error = "") =>
        NeverMoreInUse(Lifetimes(circ, all(ancillas)), circ,
                       max_ancilla_usage(ancillas))


-----------------------------------------------------------------------------
(* The simulator's gate set *)

\* a call of simulate has ended, by return or by exception
Simulated == call.routine = "simulate" /\ pc \in {"once", "twice"}

\* the operations of the program whose gate is outside S
Outside(c, S) == {j \in 1..Len(c) : c[j].kind \notin S}

Target(op) == op.qubits[Len(op.qubits)]

Controls(op) == {op.qubits[i] : i \in 1..(Len(op.qubits) - 1)}

\* C18: for every X, CNOT or TOFFOLI the target is flipped iff every control
\* is 1 when the gate is applied, every other cell and the sign keep their
\* value across the gate, and the gates are applied in program order, from the
\* caller's assignment to the one the call leaves behind.
C18_flip_iff_controls ==
    Simulated =>
        /\ trace[1].state = input
        /\ trace[Len(trace)].state = state
        /\ \A j \in 1..(Len(trace) - 1) :
              circ[j].kind \in {"X", "CNOT", "TOFFOLI"} =>
                  LET old == trace[j].state
                      now == trace[j + 1].state
                  IN /\ (now[Target(circ[j])] # old[Target(circ[j])])
                            <=> (\A q \in Controls(circ[j]) : old[q] = 1)
                     /\ \A q \in DOMAIN old :
                            q # Target(circ[j]) => now[q] = old[q]
                     /\ DOMAIN now = DOMAIN old
                     /\ trace[j + 1].phase = trace[j].phase
        /\ Outside(circ, {"X", "CNOT", "TOFFOLI"}) = {} =>
              /\ Len(trace) = Len(circ) + 1
              /\ simulate(circ, input) = state

\* a TOFFOLI that flips its target, a CNOT controlled by that target which
\* flips in turn, and a TOFFOLI whose controls are not both 1
C18_witness ==
    /\ Simulated
    /\ Len(circ) = 3
    /\ Len(trace) = 4
    /\ circ[1].kind = "TOFFOLI"
    /\ trace[2].state # trace[1].state
    /\ circ[2].kind = "CNOT"
    /\ circ[2].qubits[1] = Target(circ[1])
    /\ trace[3].state # trace[2].state
    /\ circ[3].kind = "TOFFOLI"
    /\ trace[4].state = trace[3].state

-----------------------------------------------------------------------------
(* The sign returned by the simulator *)

\* the Y and Z operations among the first j of the call whose cell was 1 when
\* they were applied
SignChanges(c, hist, j) ==
    {i \in 1..j : c[i].kind \in {"Y", "Z"} /\ hist[i].state[c[i].qubits[1]] = 1}

\* (-1)^n
Sign(n) == IF n % 2 = 0 THEN 1 ELSE -1

\* C19: Z multiplies the sign by -1 iff its cell is 1 and changes no cell;
\* Y does the same with the cell's value before the gate and then flips the
\* cell; simulate returns the product of these updates, starting from +1 on
\* every call.
C19_sign_of_Y_and_Z ==
    Simulated =>
        /\ trace[1].phase = 1
        /\ \A j \in 1..(Len(trace) - 1) :
              circ[j].kind \in {"Y", "Z"} =>
                  LET old == trace[j].state
                      now == trace[j + 1].state
                      q == circ[j].qubits[1]
                  IN /\ trace[j + 1].phase =
                            IF old[q] = 1 THEN -1 * trace[j].phase
                            ELSE trace[j].phase
                     /\ circ[j].kind = "Z" => now = old
                     /\ circ[j].kind = "Y" =>
                            now = [old EXCEPT ![q] = 1 - old[q]]
        /\ error = "" =>
              rtn = Sign(Cardinality(SignChanges(circ, trace, Len(circ))))

\* the second call on the same dictionary: a Y on a cell at 0 leaves the sign,
\* the Z that follows on the same cell, now 1, changes it, and the call
\* returns -1 whatever the first call returned
C19_witness ==
    /\ call.routine = "simulate"
    /\ pc = "twice"
    /\ error = ""
    /\ Len(circ) = 3
    /\ circ[1].kind = "Y"
    /\ input[circ[1].qubits[1]] = 0
    /\ circ[2].kind = "Z"
    /\ circ[2].qubits = circ[1].qubits
    /\ circ[3].kind = "Y"
    /\ circ[3].qubits # circ[1].qubits
    /\ rtn = -1


-----------------------------------------------------------------------------
(* add_int on a register longer than its target *)

\* C20: add_int(A, B) with len(A) > len(B) fails with the size error unless
\* allow_overflow is set; with allow_overflow it builds a program, retires
\* every ancilla it issued, and the replay of the program leaves A unchanged
\* and B = (b + a) mod 2^|B|.
C20_add_int_overflow ==
    (call.routine = "add_int" /\ call.n > call.m) =>
        /\ (pc = "built" /\ ~call.allow_overflow) =>
              error = "ValueError: register A too long to add to register B"
        /\ (pc = "built" /\ call.allow_overflow) =>
              /\ error = ""
              /\ all_discarded(ancillas)
              /\ RetiredOnce(trace, Retirements(trace),
                             {Ancilla(idx) : idx \in 0..(len(ancillas) - 1)})
        /\ pc = "done" =>
              /\ Read(1) = input[1]
              /\ Read(2) = (input[1] + input[2]) % (2 ^ call.m)


-----------------------------------------------------------------------------
(* Entry checks *)

\* C21: montgomery_reduce fails with an error when len(T) < 2*bitlen(N)+1 and
\* when N is even, and in both cases the allocator is as it was before the
\* call (issued list, live count, maximum) and no event has occurred.
C21_montgomery_reduce_rejects ==
    (call.routine = "montgomery_reduce" /\ pc = "called") =>
        /\ call.k < 2 * bit_length(call.N) + 1 =>
              /\ error = "ValueError: T too small for montgomery reduction"
              /\ ancillas = input
              /\ trace = <<>>
        /\ call.N % 2 = 0 =>
              /\ error \in {"ValueError: N must be odd",
                            "ValueError: T too small for montgomery reduction"}
              /\ ancillas = input
              /\ trace = <<>>
        /\ (call.N % 2 = 1 /\ call.k >= 2 * bit_length(call.N) + 1) =>
              error = ""

\* an even N in a register that is long enough, on an allocator with one
\* ancilla live
C21_witness ==
    /\ call.routine = "montgomery_reduce"
    /\ pc = "called"
    /\ call.N = 6
    /\ call.k = 7
    /\ error = "ValueError: N must be odd"
    /\ ancillas.n_active = 1
    /\ len(ancillas) = 2


\* the registers are too short for N and factor, or y is too short for the
\* square of x
Undersized(c) ==
    LET factor == 3 ^ c.threes
    IN \/ c.n < bit_length(factor * c.N)
       \/ c.k < 2 * bit_length(factor ^ 2 * c.N) + 1
       \/ c.k < 2 * c.n

SizeErrors ==
    {"ValueError: registers not large enough",
     "ValueError: T too small for montgomery reduction",
     "ValueError: register C not large enough to store result"}

\* C22: for an odd N, x2_mod_N on undersized registers fails with a size
\* error at the call itself, before any gate has been emitted.
C22_x2_mod_N_rejects_at_call ==
    (call.routine = "x2_mod_N" /\ "n" \in DOMAIN call /\ call.N % 2 = 1
     /\ Undersized(call) /\ pc # "start") =>
        /\ pc = "called"
        /\ error \in SizeErrors
        /\ \A j \in 1..Len(trace) : ~IsGate(trace[j])


-----------------------------------------------------------------------------
(* The comparison with a constant *)

\* exclusive or of two bits
Xor(u, v) == (u + v) % 2

\* C23: after the replay of the lessthan_classical(A, x, result) program from
\* ancillas = 0, result holds its initial value XOR (a < x) and A reads back
\* a; when bitlen(x) > len(A) the program is the single gate X(result) and no
\* ancilla is issued by the routine.
C23_lessthan_classical ==
    call.routine = "lessthan_classical" =>
        /\ pc = "built" =>
              /\ error = ""
              /\ bit_length(call.x) > call.m =>
                    /\ circ = <<X(Registers(call)[2][1])>>
                    /\ len(ancillas) = IF call.result = "ancilla" THEN 1 ELSE 0
        /\ pc = "done" =>
              /\ Read(1) = input[1]
              /\ Read(2) = Xor(input[2], IF input[1] < call.x THEN 1 ELSE 0)

\* 21 < 22 is found at the lowest bit, by a result cell that held 1
C23_witness ==
    /\ pc = "done"
    /\ call.routine = "lessthan_classical"
    /\ call.m = 5
    /\ call.x = 22
    /\ input = <<21, 1>>
    /\ Read(2) = 0
    /\ len(ancillas) = 6


-----------------------------------------------------------------------------
(* The recursion of the Karatsuba routines *)

KaratsubaRoutines == {"karatsuba_mult", "karatsuba_square", "karatsuba_classical_mult"}

\* the starts and ends of the invocations of Karatsuba routines
IsKaratsubaEvent(e) ==
    e.kind \in {"call", "return"} /\ e.routine \in KaratsubaRoutines

\* a call whose operands are no longer than its caller's and one of them is
\* shorter, or whose output register is shorter than its caller's
Descends(caller, callee) ==
    \/ /\ callee.sizes[1] <= caller.sizes[1]
       /\ callee.sizes[2] <= caller.sizes[2]
       /\ callee.sizes[1] + callee.sizes[2] < caller.sizes[1] + caller.sizes[2]
    \/ callee.sizes[3] < caller.sizes[3]

\* a call in the mode without overflow, made by a call in the mode with it,
\* on operands and an output register that are no longer
LeavesOverflowMode(caller, callee) ==
    /\ caller.allow_overflow
    /\ ~callee.allow_overflow
    /\ \A i \in 1..3 : callee.sizes[i] <= caller.sizes[i]

\* the events ev[j..] are the rest of a run in which stack holds the calls
\* not yet ended, and every call made by a call of stack descends, or, if
\* modes is set, leaves the overflow mode
RECURSIVE Nested(_, _, _, _)
Nested(ev, j, stack, modes) ==
    IF j > Len(ev) THEN TRUE
    ELSE IF ev[j].kind = "call"
    THEN /\ \/ stack = <<>>
            \/ Descends(stack[Len(stack)], ev[j])
            \/ modes /\ LeavesOverflowMode(stack[Len(stack)], ev[j])
         /\ Nested(ev, j + 1, Append(stack, ev[j]), modes)
    ELSE Nested(ev, j + 1, SubSeq(stack, 1, Len(stack) - 1), modes)

\* the deepest nesting of calls in the events ev[j..], from the depth d
RECURSIVE Depth(_, _, _)
Depth(ev, j, d) ==
    IF j > Len(ev) THEN d
    ELSE IF ev[j].kind = "call"
    THEN LET rest == Depth(ev, j + 1, d + 1) IN IF rest > d THEN rest ELSE d
    ELSE LET rest == Depth(ev, j + 1, d - 1) IN IF rest > d THEN rest ELSE d

CutoffBelowFour == call.cutoff # <<>> /\ call.cutoff[1] < 4

\* C24 as stated: a Karatsuba routine rejects a cutoff below 4, and for any
\* other cutoff every recursive call receives operands or an output register
\* shorter than its caller's.
C24_every_call_shorter ==
    (call.routine \in KaratsubaRoutines /\ pc = "built") =>
        /\ CutoffBelowFour => error # ""
        /\ ~CutoffBelowFour =>
              /\ error # "ValueError: cutoff must be >= 4"
              /\ Nested(SelectSeq(trace, IsKaratsubaEvent), 1, <<>>, FALSE)

\* C24 amended: a Karatsuba routine rejects a cutoff below 4 before it emits a
\* gate, and for any other cutoff the synthesis ends and every recursive call
\* receives operands or an output register shorter than its caller's, except
\* that a call of karatsuba_classical_mult in its allow_overflow mode may hand
\* its own operands and output register to a call without allow_overflow.
C24_recursion_descends ==
    (call.routine \in KaratsubaRoutines /\ pc = "built") =>
        /\ CutoffBelowFour => (error # "" /\ circ = <<>>)
        /\ ~CutoffBelowFour =>
              /\ error # "ValueError: cutoff must be >= 4"
              /\ Nested(SelectSeq(trace, IsKaratsubaEvent), 1, <<>>, TRUE)

\* karatsuba_classical_mult in its allow_overflow mode, under the smallest
\* cutoff, recursing three levels deep and handing its own operands and output
\* register to a call without allow_overflow
C24_witness ==
    /\ call.routine = "karatsuba_classical_mult"
    /\ pc = "built"
    /\ error = ""
    /\ call.allow_overflow
    /\ call.cutoff = <<4>>
    /\ Depth(SelectSeq(trace, IsKaratsubaEvent), 1, 0) >= 3
    /\ ~Nested(SelectSeq(trace, IsKaratsubaEvent), 1, <<>>, FALSE)


-----------------------------------------------------------------------------
(* The integer equation of extended_gcd *)

\* C25: for coprime a, b > 0, extended_gcd(a, b) returns (x, y) with
\* a*x - b*y = 1 as integers.
C25_bezout_equation ==
    (pc = "done" /\ call.routine = "extended_gcd" /\ gcd(call.a, call.b) = 1) =>
        call.a * rtn[1] - call.b * rtn[2] = 1


-----------------------------------------------------------------------------
(* The controlled addition of a constant *)

\* C26: after the replay of the add_classical_int(x, A, control=c) program
\* from ancillas = 0, A reads back a when c held 0 and (a + x) mod 2^|A| when
\* c held 1, for negative x as well, and c reads back what it held.  (The
\* program exists for the constants with bitlen(x) <= len(A).)
C26_controlled_add_classical_int ==
    call.routine = "add_classical_int_control" =>
        /\ (pc = "built" /\ bit_length(call.x) <= call.m) => error = ""
        /\ pc = "done" =>
              /\ Read(2) = input[2]
              /\ input[2] = 0 => Read(1) = input[1]
              /\ input[2] = 1 => Read(1) = (input[1] + call.x) % (2 ^ call.m)

\* -13 added under a control at 1 to a register of 5 cells holding 9: the
\* result wraps to 28
C26_witness ==
    /\ pc = "done"
    /\ call.routine = "add_classical_int_control"
    /\ call.m = 5
    /\ call.x = -13
    /\ input = <<9, 1>>
    /\ Read(1) = 28
    /\ Read(2) = 1


-----------------------------------------------------------------------------
(* The mode C_zero of the multipliers and squarers *)

\* the program the routine of the call c builds on regs in its default mode
DefaultMode(c, regs) ==
    CASE c.routine = "schoolbook_square" ->
            schoolbook_square(regs[1], regs[2], Context(AncillaManager), FALSE)
      [] c.routine = "karatsuba_square" ->
            karatsuba_square(regs[1], regs[2], Context(AncillaManager), c.cutoff, FALSE)
      [] c.routine = "schoolbook_mult" ->
            schoolbook_mult(regs[1], regs[2], regs[3], Context(AncillaManager), FALSE)
      [] c.routine = "karatsuba_mult" ->
            karatsuba_mult(regs[1], regs[2], regs[3], Context(AncillaManager),
                           c.cutoff, FALSE)
      [] c.routine = "schoolbook_classical_mult" ->
            schoolbook_classical_mult(c.a, regs[1], regs[2], Context(AncillaManager),
                                      c.allow_overflow, FALSE)
      [] c.routine = "karatsuba_classical_mult" ->
            karatsuba_classical_mult(c.a, regs[1], regs[2], Context(AncillaManager),
                                     c.cutoff, c.allow_overflow, FALSE)

\* what the default mode leaves in the registers of the call c loaded with
\* vals, an output register at 0 included: the operands, and the square or
\* product in the output register (C5, C6, C7)
DefaultFinal(c, vals) ==
    CASE c.routine \in {"schoolbook_square", "karatsuba_square"} ->
            <<vals[1], (vals[1] * vals[1]) % (2 ^ c.k)>>
      [] c.routine \in {"schoolbook_mult", "karatsuba_mult"} ->
            <<vals[1], vals[2], (vals[1] * vals[2]) % (2 ^ c.k)>>
      [] c.routine \in {"schoolbook_classical_mult", "karatsuba_classical_mult"} ->
            <<vals[1], (c.a * vals[1]) % (2 ^ c.k)>>

\* the operands of the call are short
ShortOperands(c) ==
    /\ "n" \in DOMAIN c => c.n <= MaxMul
    /\ "m" \in DOMAIN c => c.m <= MaxMul

\* C27: on an output register that starts at 0, the program built with
\* C_zero = True is built without error and leaves in the operand and output
\* registers the values that the default mode leaves there; for short
\* operands the program built with C_zero = False is replayed on the same
\* input and the registers are compared.
C27_C_zero_equivalence ==
    ("C_zero" \in DOMAIN call /\ call.C_zero) =>
        /\ pc = "built" => error = ""
        /\ pc = "done" =>
              /\ ReadAll(Registers(call), state) = DefaultFinal(call, input)
              /\ ShortOperands(call) =>
                    ReadAll(Registers(call), state) =
                        FinalValues(Registers(call), input,
                                    DefaultMode(call, Registers(call)))

\* a recursive product in the mode C_zero into an output register one cell
\* longer than the product needs
C27_witness ==
    /\ pc = "done"
    /\ call.routine = "karatsuba_mult"
    /\ call.C_zero
    /\ call.cutoff = <<4>>
    /\ call.n = 5
    /\ call.m = 5
    /\ call.k = 11
    /\ input = <<31, 31, 0>>
    /\ Read(3) = 961


\* C28: when the gate-counting tool evaluates all_discarded, every gate of
\* the program of x2_mod_N has been generated and every ancilla of the
\* program has been issued, with the flag -d and without it.
C28_leak_check_after_assembly ==
    (call.routine = "x2_mod_N" /\ "d" \in DOMAIN call
        /\ pc \in {"described", "failed"}) =>
        /\ input.gates = Len(circ)
        /\ input.issued = Len(ancillas.qubits)

\* with the flag -d the check comes after the assembly
C28_with_depth ==
    (call.routine = "x2_mod_N" /\ "d" \in DOMAIN call /\ call.d
        /\ pc \in {"described", "failed"}) =>
        /\ input.gates = Len(circ)
        /\ input.issued = Len(ancillas.qubits)

\* without it, the check comes before the first gate, when the allocator has
\* issued the registers m and b of montgomery_reduce only
C28_without_depth ==
    (call.routine = "x2_mod_N" /\ "d" \in DOMAIN call /\ ~call.d
        /\ pc \in {"checked", "described", "failed"}) =>
        /\ input.gates = 0
        /\ ~input.warning
        /\ input.issued = Len(rtn.mr.m) + 1


\* the ancillas of a manager whose isgarbage flag is false
Live(self) == {i \in 1..Len(self.qubits) : ~self.qubits[i].isgarbage}

\* C29: after any sequence of new, new_register and discard on one manager,
\* n_active is the number of issued ancillas whose isgarbage flag is false,
\* and it is never negative.
C29_n_active_counts_live ==
    call.routine = "AncillaManager" =>
        /\ ancillas.n_active = Cardinality(Live(ancillas))
        /\ ancillas.n_active >= 0

\* as long as no call of discard was given a retired ancilla or the same
\* ancilla twice, and none failed, the count is exact
C29_without_second_retirement ==
    (/\ call.routine = "AncillaManager"
     /\ \A j \in Discards :
           /\ trace[j].err = ""
           /\ \A h \in 1..Len(trace[j].qubits) :
                 /\ ~IsRetired(trace[j].before, trace[j].qubits[h])
                 /\ \A g \in 1..(h - 1) : trace[j].qubits[g] # trace[j].qubits[h])
    => /\ ancillas.n_active = Cardinality(Live(ancillas))
       /\ ancillas.n_active >= 0


\* the events of the synthesis that are operations of the program
Operations == {j \in 1..Len(trace) : trace[j].kind \notin {"new", "discard", "return", "call"}}

\* the cells an operation names
Operands(op) == {op.qubits[h] : h \in 1..Len(op.qubits)}

\* the number of operands of an allowed gate
Arity(kind) == CASE kind = "X" -> 1 [] kind = "CNOT" -> 2 [] kind = "TOFFOLI" -> 3

\* the cells of the caller's registers and the ancillas of the allocator
KnownCells ==
    {Registers(call)[1][i] : i \in 1..Len(Registers(call)[1])}
    \cup {Registers(call)[2][i] : i \in 1..Len(Registers(call)[2])}
    \cup {all(ancillas)[i] : i \in 1..Len(all(ancillas))}

\* C30: every operation of the flattened program of x2_mod_N is an X, CNOT or
\* TOFFOLI on pairwise distinct cells, each a cell of the caller's x or y
\* register or an ancilla in the allocator's all() list; the circuit holds
\* all of them, and the state built from the registers and init_state()
\* after flattening holds every cell the replay reads.
C30_gates_well_formed ==
    /\ (call.routine = "x2_mod_N" /\ pc = "built" /\ error = "") =>
          /\ \A j \in Operations :
                /\ trace[j].kind \in allowed_gates
                /\ Len(trace[j].qubits) = Arity(trace[j].kind)
                /\ Cardinality(Operands(trace[j])) = Len(trace[j].qubits)
          /\ UNION {Operands(trace[j]) : j \in Operations} \subseteq KnownCells
          /\ Len(circ) = Cardinality(Operations)
    /\ (call.routine = "x2_mod_N" /\ pc \in {"loaded", "done"}) =>
          DOMAIN state = KnownCells

\* the program of x2_mod_N(33, ..., "karatsuba", threes=1) has been replayed;
\* it holds gates of the three kinds, on cells of x, of y and on ancillas
C30_witness ==
    /\ pc = "done"
    /\ call.routine = "x2_mod_N"
    /\ call.N = 33
    /\ call.threes = 1
    /\ call.mult_type = "karatsuba"
    /\ error = ""
    /\ \A kind \in allowed_gates : \E i \in 1..Len(circ) : circ[i].kind = kind
    /\ \E i \in 1..Len(circ) :
          /\ circ[i].kind = "TOFFOLI"
          /\ circ[i].qubits[1][1] = "x"
          /\ circ[i].qubits[3][1] = "anc"
    /\ \E i \in 1..Len(circ) : circ[i].qubits[Len(circ[i].qubits)][1] = "y"

=============================================================================
